---- MODULE Spec2Model ----
(***************************************************************************)
(* Model of the card-game search engine of shinkarom/ccg: the game rules   *)
(* (game_state.py, phases.py) as pure operators, and the two search        *)
(* drivers CCG_AI.find_best_move (ccg_ai.py) and MCTS_AI.find_best_move    *)
(* (mcts_ai.py) as step-by-step state machines.                            *)
(*                                                                         *)
(* Conventions.  Python list indices are 0-based and are kept 0-based in   *)
(* moves; sequences are indexed at idx + 1.  A move is a triple            *)
(* <<kind, a, b>> with -1 in the unused positions (('PASS',) is            *)
(* <<"PASS", -1, -1>>).  Floating-point rewards are kept exact as integer  *)
(* multiples of 1 / RewardUnit.                                            *)
(***************************************************************************)
EXTENDS Integers, Sequences, FiniteSets, TLC

(***************************************************************************)
(* Generic helpers                                                         *)
(***************************************************************************)
Min(a, b) == IF a <= b THEN a ELSE b
Max(a, b) == IF a >= b THEN a ELSE b

RECURSIVE SumSeq(_)
SumSeq(s) == IF s = <<>> THEN 0 ELSE Head(s) + SumSeq(Tail(s))

\* every ordering random.shuffle can leave a list in
PermSeqs(s) ==
    { [i \in 1..Len(s) |-> s[p[i]]] : p \in Permutations(1..Len(s)) }

\* list.pop(i) for an index already known to be in range (0-based)
RemoveAt(s, i) == SubSeq(s, 1, i) \o SubSeq(s, i + 2, Len(s))

\* Python sequence indexing: -len <= idx < len is accepted, negatives wrap
PyIndexOK(idx, n) == idx >= -n /\ idx < n
PyNorm(idx, n) == IF idx < 0 THEN idx + n ELSE idx

(***************************************************************************)
(* Constants of the program                                                *)
(***************************************************************************)
MAX_HAND_SIZE == 7
MAX_RESOURCE == 10
SOLVER_ITERATIONS == 10
SIMULATE_LIMIT == 40
Inf == 1000000

\* card data: the program loads it from card_database.json
CARD_DB ==
    [c \in {1, 2} |->
        IF c = 1
        THEN [type |-> "UNIT", cost |-> 1, attack |-> 1, health |-> 1]
        ELSE [type |-> "ACTION", cost |-> 1, attack |-> 0, health |-> 0]]

(***************************************************************************)
(* Game state: game_state.py                                               *)
(***************************************************************************)
\* an empty board slot (Python None)
None ==
    [card_id |-> -1, current_attack |-> 0, current_health |-> 0,
     is_ready |-> FALSE, combat_status |-> "NONE"]

UnitState(card_id, attack, health, ready) ==
    [card_id |-> card_id, current_attack |-> attack, current_health |-> health,
     is_ready |-> ready, combat_status |-> "IDLE"]

PlayerState(health, resource, deck, hand, graveyard, board) ==
    [health |-> health, resource |-> resource, deck |-> deck, hand |-> hand,
     graveyard |-> graveyard, board |-> board]

MainPhase == [name |-> "Main", attacking_player_idx |-> -1, attacker_slot_idx |-> -1]
UpkeepPhase == [name |-> "Upkeep", attacking_player_idx |-> -1, attacker_slot_idx |-> -1]
DeclareDefenderPhase(p, slot) ==
    [name |-> "DeclareDefender", attacking_player_idx |-> p, attacker_slot_idx |-> slot]

GameState(p0, p1, cpi, turn, phase) ==
    [players |-> <<p0, p1>>, current_player_index |-> cpi, turn_number |-> turn,
     current_phase |-> phase]

\* outcomes of a call: a returned value, or a raised exception
Ok(s) == [status |-> "ok", state |-> s]
Raise(s) == [status |-> "raise", state |-> s]
Hang(s) == [status |-> "hang", state |-> s]

\* a reshuffle that leaves the graveyard as it was
draw_card_keeps_graveyard(p) ==
    IF Len(p.hand) >= MAX_HAND_SIZE THEN {p}
    ELSE IF p.deck = <<>>
         THEN IF p.graveyard = <<>> THEN {p}
              ELSE { [p EXCEPT !.deck = Tail(d), !.hand = Append(p.hand, Head(d))]
                     : d \in PermSeqs(p.graveyard) }
         ELSE { [p EXCEPT !.deck = Tail(p.deck), !.hand = Append(p.hand, Head(p.deck))] }

\* PlayerState.draw_card: every player state the call can leave behind
draw_card(p) ==
    IF Len(p.hand) >= MAX_HAND_SIZE THEN {p}
    ELSE IF p.deck = <<>>
         THEN IF p.graveyard = <<>> THEN {p}
              ELSE { [p EXCEPT !.deck = Tail(d), !.graveyard = <<>>,
                               !.hand = Append(p.hand, Head(d))]
                     : d \in PermSeqs(p.graveyard) }
         ELSE { [p EXCEPT !.deck = Tail(p.deck), !.hand = Append(p.hand, Head(p.deck))] }

get_winner_index(s) ==
    LET p1_has_lost == s.players[1].health <= 0
        p2_has_lost == s.players[2].health <= 0
    IN  IF p1_has_lost /\ p2_has_lost THEN -2
        ELSE IF p1_has_lost THEN 1
        ELSE IF p2_has_lost THEN 0
        ELSE -1

is_terminal(s) == get_winner_index(s) # -1

\* the multiset of the cards of a list: how often each card id occurs
CardCount(cards) ==
    [c \in DOMAIN CARD_DB |-> Cardinality({ i \in 1..Len(cards) : cards[i] = c })]

\* GameState.clone: copy.copy would hand back a new GameState object holding
\* the receiver's own player objects
clone_shallow(s) == [state |-> s, shares_players |-> TRUE]

\* GameState.clone: copy.deepcopy, the copy shares no object with the receiver
clone(s) == [state |-> s, shares_players |-> FALSE]

\* the receiver as its holder sees it after `worked`, the state of the copy,
\* has been written: writes to player objects the copy shares reach it too
seen_through(s, copy, worked) ==
    IF copy.shares_players THEN [s EXCEPT !.players = worked.players] ELSE s

\* a finished call on receiver s: how it ended, the state it built (the returned
\* one when status is "ok") and the receiver afterwards
Finished(status, state, receiver) ==
    [status |-> status, state |-> state, receiver |-> receiver]

\* random.shuffle(p_self.deck) applied to the receiver's own deck
determinize_call_in_place(s, player_index) ==
    LET me == player_index + 1
        opp == (1 - player_index) + 1
        opponent_hand_size == Len(s.players[opp].hand)
    IN  { LET det == [s EXCEPT
                        !.players[opp].hand = SubSeq(pool, 1, opponent_hand_size),
                        !.players[opp].deck =
                            SubSeq(pool, opponent_hand_size + 1, Len(pool)),
                        !.players[me].deck = own]
          IN  Finished("ok", det, [s EXCEPT !.players[me].deck = own])
          : pool \in PermSeqs(s.players[opp].hand \o s.players[opp].deck),
            own \in PermSeqs(s.players[me].deck) }

\* opponent_hand_size read from the copy, after its hand was cleared
determinize_call_size_of_copy(s, player_index) ==
    LET me == player_index + 1
        opp == (1 - player_index) + 1
    IN  { Finished("ok", [s EXCEPT !.players[opp].hand = <<>>,
                                   !.players[opp].deck = pool,
                                   !.players[me].deck = own], s)
          : pool \in PermSeqs(s.players[opp].hand \o s.players[opp].deck),
            own \in PermSeqs(s.players[me].deck) }

\* the viewing player's hand pooled and shuffled with its deck
determinize_call_own_hand_pooled(s, player_index) ==
    LET me == player_index + 1
        opp == (1 - player_index) + 1
        opponent_hand_size == Len(s.players[opp].hand)
        own_hand_size == Len(s.players[me].hand)
    IN  { Finished("ok", [s EXCEPT
                        !.players[opp].hand = SubSeq(pool, 1, opponent_hand_size),
                        !.players[opp].deck =
                            SubSeq(pool, opponent_hand_size + 1, Len(pool)),
                        !.players[me].hand = SubSeq(own, 1, own_hand_size),
                        !.players[me].deck =
                            SubSeq(own, own_hand_size + 1, Len(own))], s)
          : pool \in PermSeqs(s.players[opp].hand \o s.players[opp].deck),
            own \in PermSeqs(s.players[me].hand \o s.players[me].deck) }

\* GameState.determinize(player_index) on receiver s: every way the call can end
determinize_call(s, player_index) ==
    LET determined_state == clone(s)
        me == player_index + 1
        opp == (1 - player_index) + 1
        p_self == determined_state.state.players[me]
        p_opp == determined_state.state.players[opp]
        cleared == [determined_state.state EXCEPT !.players[opp].hand = <<>>,
                                                  !.players[opp].deck = <<>>]
        \* line 174 reads the size from self, after the copy was cleared
        self == seen_through(s, determined_state, cleared)
        opponent_hand_size == Len(self.players[opp].hand)
    IN  { LET dealt == Min(opponent_hand_size, Len(pool))
              det == [cleared EXCEPT
                        !.players[opp].hand = SubSeq(pool, 1, dealt),
                        !.players[opp].deck = SubSeq(pool, dealt + 1, Len(pool)),
                        !.players[me].deck = own]
          IN  Finished("ok", det, seen_through(s, determined_state, det))
          : pool \in PermSeqs(p_opp.hand \o p_opp.deck),
            own \in PermSeqs(p_self.deck) }

\* the states GameState.determinize(player_index) can return
determinize(s, player_index) ==
    { o.state : o \in determinize_call(s, player_index) }

\* a weight dictionary of an evaluation profile; {} is the empty one
Weights(health, board_attack, board_health) ==
    [empty |-> FALSE, health |-> health, board_attack |-> board_attack,
     board_health |-> board_health]
NoWeights == [empty |-> TRUE, health |-> 0, board_attack |-> 0, board_health |-> 0]

\* a returned number, or a raised exception
Value(v) == [status |-> "ok", value |-> v]
Raised == [status |-> "raise", value |-> 0]

\* GameState._calculate_single_player_score: the loop reads the attributes of
\* every board slot, None included
calculate_single_player_score(s, player_index, weights) ==
    LET player == s.players[player_index + 1]
        unit_score(i) == player.board[i].current_attack * weights.board_attack
                            + player.board[i].current_health * weights.board_health
    IN  IF weights.empty THEN Value(0)
        ELSE IF \E i \in 1..Len(player.board) : player.board[i] = None THEN Raised
        ELSE Value(player.health * weights.health
                    + SumSeq([i \in 1..Len(player.board) |-> unit_score(i)]))

\* GameState.get_score(eval_weights), in thousandths: the terminal branch
\* tests `winner is not None`, which holds for every winner index
get_score_weighted(s, eval_weights) ==
    IF is_terminal(s)
    THEN LET winner == get_winner_index(s)
         IN  IF winner = s.current_player_index THEN Value(1000)
             ELSE IF TRUE THEN Value(-1000)
             ELSE Value(0)
    ELSE LET my_player_index == s.current_player_index
             opp_player_index == 1 - my_player_index
             my_weights == eval_weights.my_eval
             opp_weights == IF eval_weights.symmetrical THEN my_weights
                            ELSE eval_weights.opp_eval
             my_subjective_score ==
                 calculate_single_player_score(s, my_player_index, my_weights)
             opp_subjective_score ==
                 calculate_single_player_score(s, opp_player_index, opp_weights)
             raw_score == my_subjective_score.value - opp_subjective_score.value
             max_score_swing == eval_weights.max_score_swing
             clamped_score == Max(-max_score_swing, Min(max_score_swing, raw_score))
         IN  IF my_subjective_score.status = "raise"
                \/ opp_subjective_score.status = "raise"
             THEN Raised
             ELSE Value((clamped_score * 1000) \div max_score_swing)

(***************************************************************************)
(* Phases: phases.py                                                       *)
(***************************************************************************)
RECURSIVE FlattenSeq(_)
FlattenSeq(ss) == IF ss = <<>> THEN <<>> ELSE Head(ss) \o FlattenSeq(Tail(ss))

PASS == <<"PASS", -1, -1>>
TAKE_DAMAGE == <<"TAKE_DAMAGE", -1, -1>>
NoMove == <<"None", -1, -1>>

\* MainPhase.get_legal_moves: card plays in hand order, then attacks in slot
\* order, then PASS
MainPhase_get_legal_moves(s) ==
    LET player == s.players[s.current_player_index + 1]
        slot_moves(hand_idx) ==
            FlattenSeq([i \in 1..Len(player.board) |->
                IF player.board[i] = None
                THEN << <<"PLAY_UNIT", hand_idx, i - 1>> >> ELSE <<>>])
        card_moves ==
            FlattenSeq([h \in 1..Len(player.hand) |->
                LET card_info == CARD_DB[player.hand[h]]
                IN  IF player.resource >= card_info.cost
                    THEN IF card_info.type = "UNIT" THEN slot_moves(h - 1)
                         ELSE IF card_info.type = "ACTION"
                              THEN << <<"PLAY_ACTION", h - 1, -1>> >>
                              ELSE <<>>
                    ELSE <<>>])
        attack_moves ==
            FlattenSeq([i \in 1..Len(player.board) |->
                IF player.board[i] # None /\ player.board[i].is_ready
                THEN << <<"DECLARE_ATTACK", i - 1, -1>> >> ELSE <<>>])
    IN  card_moves \o attack_moves \o <<PASS>>

\* DeclareDefenderPhase.get_legal_moves: one block per own unit, then TAKE_DAMAGE
DeclareDefenderPhase_get_legal_moves(s) ==
    LET defender == s.players[s.current_player_index + 1]
        block_moves ==
            FlattenSeq([i \in 1..Len(defender.board) |->
                IF defender.board[i] # None
                THEN << <<"ASSIGN_BLOCKER", i - 1, -1>> >> ELSE <<>>])
    IN  block_moves \o <<TAKE_DAMAGE>>

\* GameState.get_legal_moves: delegates to the current phase
get_legal_moves(s) ==
    IF s.current_phase.name = "Main" THEN MainPhase_get_legal_moves(s)
    ELSE IF s.current_phase.name = "DeclareDefender"
         THEN DeclareDefenderPhase_get_legal_moves(s)
         ELSE <<>>

\* the turn-1 loop `while len(hand) < MAX_HAND_SIZE: draw_card()` never ends
\* when the player owns too few cards to fill the hand
DealHangs(p) ==
    /\ Len(p.hand) < MAX_HAND_SIZE
    /\ Len(p.hand) + Len(p.deck) + Len(p.graveyard) < MAX_HAND_SIZE

RECURSIVE DealHand(_)
DealHand(p) ==
    IF Len(p.hand) >= MAX_HAND_SIZE THEN {p}
    ELSE UNION { DealHand(q) : q \in draw_card(p) }

\* an Upkeep whose player draws whatever the hand holds
UpkeepPhase_on_enter_overdraws(s) ==
    LET cpi == (s.current_player_index + 1) % 2
    IN  {Ok([s EXCEPT !.turn_number = @ + 1,
                      !.current_player_index = cpi,
                      !.players[cpi + 1].hand = Append(@, 2),
                      !.current_phase = MainPhase])}

\* an Upkeep that counts the turn and hands over to nobody
UpkeepPhase_on_enter_stays(s) == {Ok([s EXCEPT !.turn_number = @ + 1])}

\* UpkeepPhase.on_enter: runs the whole automatic phase and enters Main
UpkeepPhase_on_enter(s) ==
    LET turn == s.turn_number + 1
        first == turn = 1
        cpi == (s.current_player_index + 1) % 2
        dealt(i) == IF first THEN DealHand(s.players[i]) ELSE {s.players[i]}
        ready(board) ==
            [i \in 1..Len(board) |->
                IF board[i] # None THEN [board[i] EXCEPT !.is_ready = TRUE]
                ELSE board[i]]
        upkeep(p) ==
            LET q == [p EXCEPT !.resource = Min(MAX_RESOURCE, p.resource + 1),
                               !.board = ready(p.board)]
            IN  IF Len(q.hand) < MAX_HAND_SIZE THEN draw_card(q) ELSE {q}
    IN  IF first /\ (DealHangs(s.players[1]) \/ DealHangs(s.players[2]))
        THEN {Hang(s)}
        ELSE UNION { UNION {
                { IF Len(p.hand) > MAX_HAND_SIZE
                  THEN Raise(s)
                  ELSE Ok([s EXCEPT !.turn_number = turn,
                                    !.current_player_index = cpi,
                                    !.players = [<<p0, p1>> EXCEPT ![cpi + 1] = p],
                                    !.current_phase = MainPhase])
                  : p \in upkeep(<<p0, p1>>[cpi + 1]) }
                : p1 \in dealt(2) } : p0 \in dealt(1) }

\* MainPhase.process_action applied to the clone, followed by the on_enter of
\* the phase it returns
MainPhase_process_action(s, action) ==
    LET action_type == action[1]
        me == s.current_player_index + 1
        player == s.players[me]
    IN  IF action_type = "PLAY_UNIT" THEN
            LET hand_idx == action[2]
                slot_idx == action[3]
            IN  IF ~PyIndexOK(hand_idx, Len(player.hand)) THEN {Raise(s)}
                ELSE LET h == PyNorm(hand_idx, Len(player.hand))
                         card_id == player.hand[h + 1]
                         card_info == CARD_DB[card_id]
                         unit == UnitState(card_id, card_info.attack,
                                           card_info.health, FALSE)
                         \* lines 121-123 have run when line 132 indexes the board
                         paid == [s EXCEPT
                                !.players[me].hand = RemoveAt(player.hand, h),
                                !.players[me].resource = player.resource - card_info.cost]
                     IN  IF ~PyIndexOK(slot_idx, Len(player.board)) THEN {Raise(paid)}
                         ELSE {Ok([paid EXCEPT
                                !.players[me].board[PyNorm(slot_idx, Len(player.board)) + 1]
                                    = unit])}
        ELSE IF action_type = "PLAY_ACTION" THEN
            LET ind == action[2]
            IN  IF ind >= Len(player.hand) \/ ~PyIndexOK(ind, Len(player.hand))
                THEN {Raise(s)}
                ELSE LET h == PyNorm(ind, Len(player.hand))
                         card_id == player.hand[h + 1]
                         card_info == CARD_DB[card_id]
                     IN  IF player.resource < card_info.cost THEN {Raise(s)}
                         ELSE {Ok([s EXCEPT
                                !.players[me].hand = RemoveAt(player.hand, h),
                                !.players[me].resource = player.resource - card_info.cost,
                                !.players[me].graveyard = Append(player.graveyard, card_id)])}
        ELSE IF action_type = "DECLARE_ATTACK" THEN
            LET attacker_slot_idx == action[2]
            IN  IF ~PyIndexOK(attacker_slot_idx, Len(player.board)) THEN {Raise(s)}
                ELSE LET slot == PyNorm(attacker_slot_idx, Len(player.board)) + 1
                     IN  IF player.board[slot] = None THEN {Raise(s)}
                         ELSE {Ok([s EXCEPT
                                !.players[me].board[slot].combat_status = "ATTACKING",
                                !.current_player_index = 1 - s.current_player_index,
                                !.current_phase =
                                    DeclareDefenderPhase(s.current_player_index,
                                                         attacker_slot_idx)])}
        ELSE IF action_type = "PASS" THEN
            UpkeepPhase_on_enter([s EXCEPT !.current_phase = UpkeepPhase])
        ELSE {Ok(s)}

\* an attacker that stays ready after its attack
exhausted_still_ready(unit) == [unit EXCEPT !.combat_status = "IDLE"]

\* lines 248-254: the attacker leaves combat, exhausted for the rest of the turn
exhausted(unit) == [unit EXCEPT !.combat_status = "IDLE", !.is_ready = FALSE]

\* a resolution that enters Main and leaves the defender to act
return_control_to_defender(t, attacking_player_idx) == [t EXCEPT !.current_phase = MainPhase]

\* lines 224-225 and 257-258: control returns to the original attacker
return_control(t, attacking_player_idx) ==
    [t EXCEPT !.current_player_index = attacking_player_idx, !.current_phase = MainPhase]

\* DeclareDefenderPhase.process_action applied to the clone; control returns
\* to the attacker in the Main phase
DeclareDefenderPhase_process_action(s, action) ==
    LET action_type == action[1]
        api == s.current_phase.attacking_player_idx
        ap == api + 1
        dp == (1 - api) + 1
        attacker_player == s.players[ap]
        defender_player == s.players[dp]
        nslots == Len(attacker_player.board)
        aslot == PyNorm(s.current_phase.attacker_slot_idx, nslots) + 1
        back(t) == return_control(t, api)
    IN  IF ~PyIndexOK(s.current_phase.attacker_slot_idx, nslots) THEN {Raise(s)}
        ELSE LET attacker == attacker_player.board[aslot]
                 spent(u) == exhausted(u)
             IN  IF attacker = None THEN {Ok(back(s))}
                 ELSE IF action_type = "ASSIGN_BLOCKER" THEN
                    LET blocker_slot_idx == action[2]
                        nb == Len(defender_player.board)
                    IN  IF ~PyIndexOK(blocker_slot_idx, nb) THEN {Raise(s)}
                        ELSE LET bslot == PyNorm(blocker_slot_idx, nb) + 1
                                 blocker == defender_player.board[bslot]
                                 b1 == [blocker EXCEPT
                                          !.current_health = @ - attacker.current_attack,
                                          !.combat_status = "IDLE"]
                                 a1 == [attacker EXCEPT
                                          !.current_health = @ - blocker.current_attack]
                                 a_dead == a1.current_health <= 0
                                 b_dead == b1.current_health <= 0
                             IN  IF blocker = None THEN {Raise(s)}
                                 ELSE {Ok(back([s EXCEPT
                                    !.players[ap].board[aslot] =
                                        IF a_dead THEN None ELSE spent(a1),
                                    !.players[ap].graveyard =
                                        IF a_dead THEN Append(@, attacker.card_id) ELSE @,
                                    !.players[dp].board[bslot] =
                                        IF b_dead THEN None ELSE b1,
                                    !.players[dp].graveyard =
                                        IF b_dead THEN Append(@, blocker.card_id) ELSE @]))}
                 ELSE IF action_type = "TAKE_DAMAGE" THEN
                    {Ok(back([s EXCEPT
                        !.players[dp].health = @ - attacker.current_attack,
                        !.players[ap].board[aslot] = spent(attacker)]))}
                 ELSE {Ok(back([s EXCEPT !.players[ap].board[aslot] = spent(attacker)]))}

\* GameState.process_action(action) on receiver s: clone, delegate to the phase
\* of the clone, enter the phase it returns.  Every way the call can end.
process_action_call(s, action) ==
    LET new_state == clone(s)
        outcomes ==
            IF new_state.state.current_phase.name = "Main"
            THEN MainPhase_process_action(new_state.state, action)
            ELSE IF new_state.state.current_phase.name = "DeclareDefender"
                 THEN DeclareDefenderPhase_process_action(new_state.state, action)
                 ELSE {Raise(new_state.state)}
    IN  { Finished(o.status, o.state, seen_through(s, new_state, o.state))
          : o \in outcomes }

\* the outcomes of GameState.process_action as its caller receives them
process_action(s, action) ==
    { [status |-> o.status, state |-> o.state] : o \in process_action_call(s, action) }

OkStates(outcomes) == { o.state : o \in { x \in outcomes : x.status = "ok" } }
Fails(outcomes) == \E o \in outcomes : o.status # "ok"

(***************************************************************************)
(* Bounds of the model                                                     *)
(***************************************************************************)
MaxProbes == 4
MaxClock == 2
MaxEvalLimit == 3
MaxScore == 2
MaxWorlds == 2

(***************************************************************************)
(* Inputs: root states and option sets                                     *)
(***************************************************************************)
NoState == GameState(PlayerState(0, 0, <<>>, <<>>, <<>>, <<>>),
                     PlayerState(0, 0, <<>>, <<>>, <<>>, <<>>), -1, 0,
                     [name |-> "NoState", attacking_player_idx |-> -1,
                      attacker_slot_idx |-> -1])

ReadyUnit == UnitState(1, 1, 1, TRUE)

\* a freshly built state still in the automatic Upkeep phase: no legal moves
RootNoMoves ==
    GameState(PlayerState(2, 0, <<2>>, <<>>, <<>>, <<None>>),
              PlayerState(2, 0, <<2>>, <<>>, <<>>, <<None>>), -1, 0, UpkeepPhase)

\* Main phase, nothing playable, no ready unit: PASS is the only move
RootForced ==
    GameState(PlayerState(2, 0, <<>>, <<2>>, <<>>, <<None>>),
              PlayerState(2, 1, <<2>>, <<1>>, <<>>, <<None>>), 0, 3, MainPhase)

\* Main phase with a playable action card: PLAY_ACTION 0, PASS
RootCard ==
    GameState(PlayerState(2, 1, <<>>, <<2>>, <<>>, <<None>>),
              PlayerState(2, 1, <<2>>, <<1>>, <<>>, <<None>>), 0, 3, MainPhase)

\* Main phase with a ready unit facing a defender at 1 health:
\* DECLARE_ATTACK 0, PASS
RootAttack ==
    GameState(PlayerState(2, 0, <<>>, <<>>, <<>>, <<ReadyUnit>>),
              PlayerState(1, 0, <<>>, <<>>, <<>>, <<None>>), 0, 3, MainPhase)

\* the state right after a lethal TAKE_DAMAGE: player 1 is at 0 health, the
\* attacker holds priority again and still has a playable card
RootTerminal ==
    GameState(PlayerState(2, 1, <<>>, <<2>>, <<>>,
                          <<[ReadyUnit EXCEPT !.is_ready = FALSE]>>),
              PlayerState(0, 0, <<>>, <<>>, <<>>, <<None>>), 0, 3, MainPhase)

ShortRoots == {RootNoMoves, RootForced}
SearchRoots == {RootCard, RootAttack, RootTerminal}
TreeRoots == {RootAttack, RootTerminal}

Options(tl, el, ppw, bl, temp, ce) ==
    [time_limit_ms |-> tl, evaluation_limit |-> el, probes_per_world |-> ppw,
     blunder_chance |-> bl, temperature |-> temp, certainty_exponent |-> ce,
     exploration_weight |-> 141, recon_depth |-> 2, max_score_swing |-> 1,
     variance_weight |-> 0]

TimeLimits == {0, 1, Inf}
EvalLimits == (0..MaxEvalLimit) \cup {Inf}
\* blunder_chance in percent, temperature in hundredths
BlunderChances == {0, 50, 100}
Temperatures == {0, 100}
\* certainty_exponent: 1.0 (the default, no adjustment), 0 and 2
CertaintyExponents == {0, 1, 2}
\* a configured variance_weight, in thousandths
VarianceWeights == {0, 500}
\* the values random.random() can return, in percent
RandomDraws == {0, 50, 99}
Scores == 0..MaxScore

\* every combination of the budgets and the blunder chance
AllOptions ==
    { Options(tl, el, 2, bl, temp, 1) :
        tl \in TimeLimits, el \in EvalLimits, bl \in BlunderChances,
        temp \in Temperatures }

\* the option sets the searches are run with
SearchOptions ==
    { Options(tl, el, 2, 0, 0, 1) : tl \in TimeLimits, el \in EvalLimits }
    \cup { Options(Inf, MaxEvalLimit, 1, 0, temp, 1) : temp \in Temperatures }
    \cup { Options(Inf, 2, 2, bl, temp, 1) :
             bl \in BlunderChances, temp \in Temperatures }
    \cup { Options(Inf, 1, 2, 0, temp, ce) :
             temp \in Temperatures, ce \in CertaintyExponents }
    \cup { [Options(Inf, Inf, 2, 0, 0, 1) EXCEPT !.variance_weight = vw] :
             vw \in VarianceWeights }

\* MCTS_AI takes the time limit only
TreeOptions == { Options(tl, Inf, 1, 0, 0, 1) : tl \in TimeLimits }

(***************************************************************************)
(* State                                                                   *)
(***************************************************************************)
VARIABLES
    ai,                         \* which driver runs: "CCG" or "MCTS"
    initial_state,              \* the argument of find_best_move
    options,                    \* self.options
    pc,                         \* position in find_best_move
    elapsed,                    \* time.time() - start_time, in milliseconds
    legal_moves,
    master_move_stats,          \* one entry per legal move, in dict order
    total_evaluation_count,
    current_determinized_state,
    best_move_to_probe,
    current_state,              \* run_recon_playout: the state being played
    depth,                      \* run_recon_playout: loop index
    tree,                       \* MCTS: the nodes of the current world, root first
    total_playout_count,
    iter,                       \* MCTS: index of the solver iteration
    node,                       \* MCTS: the node the playout stands on
    moves_in_tree,
    worlds,                     \* MCTS: determinizations taken so far
    result,                     \* the returned (move, count)
    calls,                      \* collaborator calls made so far (process_action: whether
                                \* any; on_terminal: whether any on a terminal receiver)
    cycle_started_at,           \* value of elapsed when the last probe began
    playout,                    \* MCTS: what the last simulate call returned
    call,                       \* the last call made on the game state or the configuration
    instance,                   \* the CCG_AI / MonteCarloAnalyzer object built so far
    turn_log,                   \* the game loop: units played and attacks declared in
                                \* the turn under way, in order
    app_state,                  \* GameApplication.state
    game_settings,              \* GameApplication.game_settings
    game,                       \* run_game: its game_state
    previous_player_idx,        \* run_game
    rendered                    \* the arguments of the last render_game_state call
                                \* of the game under way

vars == <<ai, initial_state, options, pc, elapsed, legal_moves, master_move_stats,
          total_evaluation_count, current_determinized_state, best_move_to_probe,
          current_state, depth, tree, total_playout_count, iter, node, moves_in_tree,
          worlds, playout, result, calls, cycle_started_at, call, instance, turn_log,
          app_state, game_settings, game, previous_player_idx, rendered>>

appVars == <<app_state, game_settings, game, previous_player_idx, rendered>>
inputVars == <<ai, initial_state, options, call, instance, turn_log, appVars>>
probeVars == <<current_determinized_state, best_move_to_probe, current_state, depth>>
walkVars == <<node, moves_in_tree>>
treeVars == <<tree, total_playout_count, iter, walkVars, worlds, playout>>
searchVars == <<options, pc, elapsed, legal_moves, master_move_stats,
                total_evaluation_count, probeVars, treeVars, result, calls,
                cycle_started_at>>

NoResult == [move |-> NoMove, count |-> -1]
\* game_settings before a lobby has run, and no state rendered yet
NoSettings == [mode |-> "none", players |-> <<>>,
               pov_provider |-> [returns |-> "none", human_player_index |-> -1]]
NoRender == [pov_player_index |-> -3, current_player_idx |-> -3, game_over |-> FALSE]
NoPlayout == [final_sim_state |-> NoState, moves_in_sim |-> {}]
NoCalls ==
    [determinize |-> 0, process_action |-> FALSE, on_terminal |-> FALSE, blunder |-> 0,
     choose_final |-> 0]

(***************************************************************************)
(* CCG_AI: ccg_ai.py                                                       *)
(***************************************************************************)
\* Rewards are exact multiples of 1 / RewardUnit(max_score_swing); squared
\* rewards are multiples of 1 / RewardUnit^2.
RewardUnit(max_score_swing) == 16 * max_score_swing * max_score_swing

\* CCG_AI.normalize_score_diff: (clamp(my - opp) + swing) / (2 * swing)
normalize_score_diff(my_score, opp_score, max_score_swing) ==
    LET score_difference == my_score - opp_score
        clamped_diff == Max(-max_score_swing, Min(max_score_swing, score_difference))
        shifted_diff == clamped_diff + max_score_swing
    IN  (shifted_diff * RewardUnit(max_score_swing)) \div (2 * max_score_swing)

\* the certainty adjustment: copysign(|r - 0.5| ^ exp, r - 0.5) + 0.5 for
\* exp # 1 (exponents 0 and 2 are representable exactly)
certainty_adjust(reward, certainty_exp, max_score_swing) ==
    LET unit == RewardUnit(max_score_swing)
        half == unit \div 2
        reward_from_center == reward - half
        sign == IF reward_from_center < 0 THEN -1 ELSE 1
    IN  IF certainty_exp = 1 THEN reward
        ELSE IF certainty_exp = 0 THEN sign * unit + half
        ELSE sign * ((reward_from_center * reward_from_center) \div unit) + half

\* natural logarithm in thousandths, for the arguments the bounds allow
LnMilli(n) ==
    <<0, 693, 1099, 1386, 1609, 1792, 1946, 2079, 2197, 2303, 2398, 2485>>[n]

RECURSIVE ISqrtIn(_, _, _)
ISqrtIn(n, lo, hi) ==
    IF lo >= hi THEN lo
    ELSE LET mid == (lo + hi + 1) \div 2
         IN  IF mid * mid <= n THEN ISqrtIn(n, mid, hi) ELSE ISqrtIn(n, lo, mid - 1)
ISqrt(n) == ISqrtIn(n, 0, 2000)

\* the UCB-Tuned score of one root move, in thousandths; Inf when unvisited
ucb_score(stats, n, C, unit) ==
    IF stats.visits = 0 THEN Inf
    ELSE LET avg_reward == (stats.total_reward * 1000) \div (unit * stats.visits)
             avg_squared_reward ==
                 (stats.total_squared_reward * 1000) \div (unit * unit * stats.visits)
             variance == Max(0, avg_squared_reward - (avg_reward * avg_reward) \div 1000)
             exploration_bonus ==
                 ISqrt((LnMilli(n + 1) * Min(250, variance)) \div stats.visits)
         IN  avg_reward + (C * exploration_bonus) \div 100

\* the scan of master_move_stats: the first move with the strictly best score
RECURSIVE select_scan(_, _, _, _, _, _)
select_scan(all_stats, i, best, max_ucb_score, n, opt) ==
    IF i > Len(all_stats) THEN best
    ELSE LET s == ucb_score(all_stats[i], n, opt.exploration_weight,
                            RewardUnit(opt.max_score_swing))
         IN  IF s > max_ucb_score
             THEN select_scan(all_stats, i + 1, i, s, n, opt)
             ELSE select_scan(all_stats, i + 1, best, max_ucb_score, n, opt)

\* the scan with >= in place of >: the last move with the best score
RECURSIVE select_scan_last(_, _, _, _, _, _)
select_scan_last(all_stats, i, best, max_ucb_score, n, opt) ==
    IF i > Len(all_stats) THEN best
    ELSE LET s == ucb_score(all_stats[i], n, opt.exploration_weight,
                            RewardUnit(opt.max_score_swing))
         IN  IF s >= max_ucb_score
             THEN select_scan_last(all_stats, i + 1, i, s, n, opt)
             ELSE select_scan_last(all_stats, i + 1, best, max_ucb_score, n, opt)

select_move_to_probe_last(all_stats, n, opt) ==
    select_scan_last(all_stats, 1, 0, -Inf, n, opt)

\* index (1-based, dict order) of best_move_to_probe
select_move_to_probe(all_stats, n, opt) == select_scan(all_stats, 1, 0, -Inf, n, opt)

MaxVisits(all_stats) ==
    CHOOSE v \in { all_stats[i].visits : i \in 1..Len(all_stats) } :
        \A i \in 1..Len(all_stats) : all_stats[i].visits <= v

\* max() over the keys in dict order: a later key replaces the best one only
\* when its visit count is strictly larger
RECURSIVE max_scan(_, _, _)
max_scan(all_stats, i, best) ==
    IF i > Len(all_stats) THEN best
    ELSE IF all_stats[i].visits > all_stats[best].visits
         THEN max_scan(all_stats, i + 1, i)
         ELSE max_scan(all_stats, i + 1, best)

\* the scan with >= in place of >: the last of the most visited keys
RECURSIVE max_scan_last(_, _, _)
max_scan_last(all_stats, i, best) ==
    IF i > Len(all_stats) THEN best
    ELSE IF all_stats[i].visits >= all_stats[best].visits
         THEN max_scan_last(all_stats, i + 1, i)
         ELSE max_scan_last(all_stats, i + 1, best)

greedy_choice_last(all_stats) == max_scan_last(all_stats, 2, 1)

\* max(move_stats, key=visits): index (1-based, dict order) of the chosen key
greedy_choice(all_stats) == max_scan(all_stats, 2, 1)

\* math.exp underflows to 0.0 below -745.13 (in hundredths)
EXP_UNDERFLOW == 74513

\* CCG_AI.choose_final_move (the definition in force, the second one): the
\* indices it can return, 0 for None.  temperature is in hundredths.
choose_final_move(all_stats, temperature) ==
    IF all_stats = <<>> THEN {0}
    ELSE IF temperature < 1 THEN {greedy_choice(all_stats)}
    ELSE { i \in 1..Len(all_stats) :
            (MaxVisits(all_stats) - all_stats[i].visits) * 10000
                <= EXP_UNDERFLOW * temperature }

\* time_limit as computed at line 175: 0 (falsy) and a missing value mean
\* "no limit"
time_limit(opt) == IF opt.time_limit_ms # 0 THEN opt.time_limit_ms ELSE Inf

FreshStats(moves) ==
    [i \in 1..Len(moves) |->
        [visits |-> 0, total_reward |-> 0, total_squared_reward |-> 0]]

SumVisits(all_stats) == SumSeq([i \in 1..Len(all_stats) |-> all_stats[i].visits])

Return(move, count) == [move |-> move, count |-> count]

\* a move picked by index; index 0 stands for None
MoveAt(moves, i) == IF i = 0 THEN NoMove ELSE moves[i]

\* the forced move reported with a count of 0
short_circuit_count_zero(moves) ==
    IF moves = <<>> THEN Return(NoMove, 0)
    ELSE IF Len(moves) = 1 THEN Return(moves[1], 0)
    ELSE NoResult

\* the two tests merged into one `len(legal_moves) <= 1`
short_circuit_merged(moves) ==
    IF Len(moves) <= 1 THEN Return(MoveAt(moves, Len(moves)), 1)
    ELSE NoResult

\* the two early returns on the legal moves (`if not legal_moves`,
\* `if len(legal_moves) == 1`); NoResult when the search goes on
short_circuit(moves) ==
    IF moves = <<>> THEN Return(NoMove, 0)
    ELSE IF Len(moves) = 1 THEN Return(moves[1], 1)
    ELSE NoResult

\* the evaluation budget tested with > in place of >=
loop_breaks_late(t, count, opt) ==
    t >= time_limit(opt) \/ count > opt.evaluation_limit

\* lines 201-202: the two break tests at the top of the search loop
loop_breaks(t, count, opt) ==
    t >= time_limit(opt) \/ count >= opt.evaluation_limit

\* the update without `stats["visits"] += 1`
record_probe_no_visit(all_stats, move, reward) ==
    [all_stats EXCEPT ![move] =
        [visits |-> @.visits,
         total_reward |-> @.total_reward + reward,
         total_squared_reward |-> @.total_squared_reward + reward * reward]]

\* lines 243-246: the probed move's entry of master_move_stats is updated
record_probe(all_stats, move, reward) ==
    [all_stats EXCEPT ![move] =
        [visits |-> @.visits + 1,
         total_reward |-> @.total_reward + reward,
         total_squared_reward |-> @.total_squared_reward + reward * reward]]

\* lines 175-183: setup, legal moves and the two short circuits
CCG_Setup ==
    /\ ai = "CCG" /\ pc = "start"
    /\ legal_moves' = get_legal_moves(initial_state)
    /\ result' = short_circuit(legal_moves')
    /\ pc' = IF result' # NoResult THEN "done" ELSE "blunder"
    /\ UNCHANGED <<inputVars, treeVars, elapsed, master_move_stats, total_evaluation_count,
                   probeVars, calls, cycle_started_at>>

\* lines 185-196: the blunder draw, then the master statistics and the clock
CCG_BlunderDraw ==
    /\ ai = "CCG" /\ pc = "blunder"
    /\ calls' = [calls EXCEPT !.blunder = @ + 1]
    /\ \E r \in RandomDraws :
        IF r < options.blunder_chance
        THEN /\ \E i \in 1..Len(legal_moves) : result' = Return(legal_moves[i], 0)
             /\ pc' = "done"
             /\ UNCHANGED <<master_move_stats, elapsed>>
        ELSE /\ master_move_stats' = FreshStats(legal_moves)
             /\ elapsed' = 0
             /\ pc' = "looptop"
             /\ UNCHANGED result
    /\ UNCHANGED <<inputVars, treeVars, legal_moves, total_evaluation_count, probeVars,
                   cycle_started_at>>

\* lines 200-202: a budget is exhausted, leave the loop
CCG_LoopExit ==
    /\ ai = "CCG" /\ pc = "looptop"
    /\ loop_breaks(elapsed, total_evaluation_count, options)
    /\ pc' = "final"
    /\ UNCHANGED <<inputVars, treeVars, elapsed, legal_moves, master_move_stats,
                   total_evaluation_count, probeVars, result, calls, cycle_started_at>>

\* lines 200-229: both budget checks pass; world management, selection of the
\* move to probe, and its application to the current world
\* a new world for every probe, whatever probes_per_world says
new_world_due_every_probe(count, opt) == TRUE

\* line 206: a new world every probes_per_world probes
new_world_due(count, opt) == count % opt.probes_per_world = 0

CCG_ProbeStart ==
    /\ ai = "CCG" /\ pc = "looptop"
    /\ ~loop_breaks(elapsed, total_evaluation_count, options)
    /\ cycle_started_at' = elapsed
    /\ LET resample == new_world_due(total_evaluation_count, options)
           candidates == IF resample
                     THEN determinize(initial_state, initial_state.current_player_index)
                     ELSE {current_determinized_state}
           probe == select_move_to_probe(master_move_stats, total_evaluation_count,
                                         options)
       IN  /\ best_move_to_probe' = probe
           /\ \E w \in candidates :
                /\ current_determinized_state' = w
                /\ calls' = [calls EXCEPT
                               !.determinize =
                                   IF resample /\ total_evaluation_count < MaxProbes
                                   THEN @ + 1 ELSE @,
                               !.process_action = TRUE,
                               !.on_terminal = @ \/ is_terminal(w)]
                /\ \E o \in process_action(w, legal_moves[probe]) :
                     IF o.status = "ok"
                     THEN current_state' = o.state /\ depth' = 0 /\ pc' = "playout"
                     ELSE pc' = "raised" /\ UNCHANGED <<current_state, depth>>
    /\ UNCHANGED <<inputVars, treeVars, elapsed, legal_moves, master_move_stats,
                   total_evaluation_count, result>>

\* a playout loop without its is_terminal check
playout_over_unchecked(s, d, limit) ==
    d >= limit \/ get_legal_moves(s) = <<>>

\* run_recon_playout has reached its end: depth limit, terminal state or no move
playout_over(s, d, limit) ==
    d >= limit \/ is_terminal(s) \/ get_legal_moves(s) = <<>>

\* run_recon_playout, one iteration of its loop: a random legal move
CCG_PlayoutStep ==
    /\ ai = "CCG" /\ pc = "playout"
    /\ ~playout_over(current_state, depth, options.recon_depth)
    /\ calls' = [calls EXCEPT !.process_action = TRUE,
                              !.on_terminal = @ \/ is_terminal(current_state)]
    /\ \E i \in 1..Len(get_legal_moves(current_state)) :
         \E o \in process_action(current_state, get_legal_moves(current_state)[i]) :
            IF o.status = "ok"
            THEN current_state' = o.state /\ depth' = depth + 1 /\ pc' = "playout"
            ELSE pc' = "raised" /\ UNCHANGED <<current_state, depth>>
    /\ UNCHANGED <<inputVars, treeVars, elapsed, legal_moves, master_move_stats,
                   total_evaluation_count, current_determinized_state,
                   best_move_to_probe, result, cycle_started_at>>

\* the (p0, p1) pair returned by final_recon_state.get_score(): any two scores
get_score(s) == Scores \X Scores

\* lines 231-247: score the playout, adjust, update the master statistics.
\* The model records MaxProbes probes; the probes a search makes beyond them
\* (only an infinite evaluation_limit lets it get that far, every finite one
\* being below MaxProbes) run in full but leave the statistics and the
\* counters, calls.determinize included, as they are.
CCG_ScoreAndUpdate ==
    /\ ai = "CCG" /\ pc = "playout"
    /\ playout_over(current_state, depth, options.recon_depth)
    /\ IF total_evaluation_count < MaxProbes
       THEN /\ \E sc \in get_score(current_state) :
                LET my_score ==
                        IF initial_state.current_player_index = 0 THEN sc[1] ELSE sc[2]
                    opp_score ==
                        IF initial_state.current_player_index = 0 THEN sc[2] ELSE sc[1]
                    reward == certainty_adjust(
                                normalize_score_diff(my_score, opp_score,
                                                     options.max_score_swing),
                                options.certainty_exponent, options.max_score_swing)
                IN  master_move_stats' =
                        record_probe(master_move_stats, best_move_to_probe, reward)
            /\ total_evaluation_count' = total_evaluation_count + 1
       ELSE UNCHANGED <<master_move_stats, total_evaluation_count>>
    /\ pc' = "looptop"
    /\ UNCHANGED <<inputVars, treeVars, elapsed, legal_moves, probeVars, result, calls,
                   cycle_started_at>>

\* lines 249-257: the final decision
CCG_FinalDecision ==
    /\ ai = "CCG" /\ pc = "final"
    /\ IF total_evaluation_count = 0
       THEN /\ \E i \in 1..Len(legal_moves) : result' = Return(legal_moves[i], 0)
            /\ UNCHANGED calls
       ELSE /\ \E i \in choose_final_move(master_move_stats, options.temperature) :
                 result' = Return(MoveAt(legal_moves, i), total_evaluation_count)
            /\ calls' = [calls EXCEPT !.choose_final = @ + 1]
    /\ pc' = "done"
    /\ UNCHANGED <<inputVars, treeVars, elapsed, legal_moves, master_move_stats,
                   total_evaluation_count, probeVars, cycle_started_at>>


(***************************************************************************)
(* MCTS_AI: mcts_ai.py                                                     *)
(***************************************************************************)
RAVE_EQUIVALENCE == 350

\* wins and rewards of the tree are exact multiples of 1 / WinUnit
WinUnit == 2

\* MCTSNode.__init__: every node the constructor can build (the untried
\* actions are the legal moves in a shuffled order)
MCTSNode(game_state, parent, action) ==
    { [game_state |-> game_state, parent |-> parent, action |-> action,
       children |-> <<>>, wins |-> 0, visits |-> 0,
       rave_wins |-> <<>>, rave_visits |-> <<>>,
       untried_actions |-> u]
      : u \in PermSeqs(get_legal_moves(game_state)) }

\* a node that counts as fully expanded from the start
is_fully_expanded_always(n) == TRUE

is_fully_expanded(n) == Len(n.untried_actions) = 0

\* dict.get(key, default) on a RAVE table
DictGet(d, key, default) == IF key \in DOMAIN d THEN d[key] ELSE default

\* the score best_child gives one child, in thousandths
child_score(parent, child, exploration_weight) ==
    LET rave_score ==
            (DictGet(parent.rave_wins, child.action, 0) * 1000)
                \div (WinUnit * DictGet(parent.rave_visits, child.action, 1))
        mcts_score == (child.wins * 1000) \div (WinUnit * child.visits)
        beta == ISqrt((RAVE_EQUIVALENCE * 1000000)
                        \div (3 * parent.visits + RAVE_EQUIVALENCE))
        combined_score == ((1000 - beta) * mcts_score + beta * rave_score) \div 1000
        explore_score ==
            (exploration_weight * ISqrt((LnMilli(parent.visits) * 1000) \div child.visits))
                \div 100
    IN  combined_score + explore_score

\* MCTSNode.best_child: the children (tree indices) it can return.  The first
\* unvisited child is returned at once if the scan meets it before anything
\* fails; otherwise one of the best-scored children.
best_child(nodes, i) ==
    LET n == nodes[i]
        kids == n.children
        unvisited == { k \in 1..Len(kids) : nodes[kids[k]].visits = 0 }
        score(k) == child_score(n, nodes[kids[k]], 141)
    IN  IF unvisited # {}
        THEN { kids[CHOOSE k \in unvisited : \A j \in unvisited : k <= j] }
        ELSE { kids[k] : k \in { k \in 1..Len(kids) :
                                  \A j \in 1..Len(kids) : score(j) <= score(k) } }

\* best_child raises: math.log(0) with a visited child, or
\* random.choice of an empty list
best_child_raises(nodes, i) ==
    LET n == nodes[i]
    IN  \/ Len(n.children) = 0
        \/ /\ n.visits = 0
           /\ nodes[n.children[1]].visits # 0

\* the reward of a finished simulation for the search player, in 1 / WinUnit
reward_for_search_player(final_sim_state, search_player_index) ==
    LET winner_idx == get_winner_index(final_sim_state)
        p_search_health == final_sim_state.players[search_player_index + 1].health
        p_other_health == final_sim_state.players[(1 - search_player_index) + 1].health
    IN  IF winner_idx = search_player_index THEN WinUnit
        ELSE IF winner_idx = -2 THEN WinUnit \div 2
        ELSE IF winner_idx = -1
             THEN IF p_search_health > p_other_health THEN WinUnit
                  ELSE IF p_search_health < p_other_health THEN 0
                  ELSE WinUnit \div 2
             ELSE 0

RECURSIVE PathToRoot(_, _)
PathToRoot(nodes, i) ==
    IF i = 0 THEN {} ELSE {i} \cup PathToRoot(nodes, nodes[i].parent)

\* backpropagate without the change of perspective: every node on the path
\* is credited the search player's reward
backpropagate_no_flip(nodes, leaf_node, final_sim_state, search_player_index, in_tree, in_sim) ==
    LET reward == reward_for_search_player(final_sim_state, search_player_index)
        path == PathToRoot(nodes, leaf_node)
    IN  [i \in 1..Len(nodes) |->
            IF i \in path
            THEN [nodes[i] EXCEPT !.visits = @ + 1, !.wins = @ + reward]
            ELSE nodes[i]]

\* backpropagate that credits the leaf and stops
backpropagate_leaf_only(nodes, leaf_node, final_sim_state, search_player_index, in_tree, in_sim) ==
    LET reward == reward_for_search_player(final_sim_state, search_player_index)
        n == nodes[leaf_node]
        current_reward == IF n.game_state.current_player_index = search_player_index
                          THEN reward ELSE WinUnit - reward
    IN  [nodes EXCEPT ![leaf_node] =
            [n EXCEPT !.visits = @ + 1, !.wins = @ + current_reward]]

\* MCTS_AI.backpropagate: the tree after the walk from leaf_node to the root
backpropagate(nodes, leaf_node, final_sim_state, search_player_index, in_tree, in_sim) ==
    LET reward == reward_for_search_player(final_sim_state, search_player_index)
        all_moves_made_in_playout == in_tree \cup in_sim
        path == PathToRoot(nodes, leaf_node)
        update(n) ==
            LET player_at_node == n.game_state.current_player_index
                current_reward == IF player_at_node = search_player_index
                                  THEN reward ELSE WinUnit - reward
                hit(m) == m \in all_moves_made_in_playout
            IN  [n EXCEPT
                    !.rave_visits = [m \in DOMAIN @ |-> IF hit(m) THEN @[m] + 1 ELSE @[m]],
                    !.rave_wins = [m \in DOMAIN @ |->
                                      IF hit(m) THEN @[m] + current_reward ELSE @[m]],
                    !.visits = @ + 1,
                    !.wins = @ + current_reward]
    IN  [i \in 1..Len(nodes) |-> IF i \in path THEN update(nodes[i]) ELSE nodes[i]]

\* the sum of f over the children of the root whose action is move
RECURSIVE ChildSum(_, _, _, _)
ChildSum(nodes, kids, move, field) ==
    IF kids = <<>> THEN 0
    ELSE (IF nodes[Head(kids)].action = move
          THEN (IF field = "visits" THEN nodes[Head(kids)].visits
                ELSE nodes[Head(kids)].wins)
          ELSE 0) + ChildSum(nodes, Tail(kids), move, field)

\* lines 101-111: legal moves, the two short circuits, statistics, clock
MCTS_Setup ==
    /\ ai = "MCTS" /\ pc = "start"
    /\ legal_moves' = get_legal_moves(initial_state)
    /\ result' = short_circuit(legal_moves')
    /\ IF result' # NoResult
       THEN pc' = "done" /\ UNCHANGED master_move_stats
       ELSE /\ pc' = "m_looptop"
            /\ master_move_stats' =
                   [i \in 1..Len(legal_moves') |-> [wins |-> 0, visits |-> 0]]
    /\ elapsed' = 0
    /\ UNCHANGED <<inputVars, treeVars, total_evaluation_count, probeVars, calls,
                   cycle_started_at>>

\* line 114, condition true: determinize and build the root of a new world
MCTS_WorldStart ==
    /\ ai = "MCTS" /\ pc = "m_looptop"
    /\ elapsed < options.time_limit_ms
    /\ worlds < MaxWorlds
    /\ worlds' = worlds + 1
    /\ calls' = [calls EXCEPT !.determinize = @ + 1]
    /\ \E determinate_state \in
            determinize(initial_state, initial_state.current_player_index) :
         \E solver_root \in MCTSNode(determinate_state, 0, NoMove) :
            tree' = <<solver_root>>
    /\ iter' = 0
    /\ pc' = "m_iter"
    /\ UNCHANGED <<inputVars, playout, elapsed, legal_moves, master_move_stats,
                   total_evaluation_count, probeVars, total_playout_count, walkVars,
                   result, cycle_started_at>>

\* line 114, condition false: the time budget is used up
MCTS_LoopExit ==
    /\ ai = "MCTS" /\ pc = "m_looptop"
    /\ ~(elapsed < options.time_limit_ms)
    /\ pc' = "m_final"
    /\ UNCHANGED <<inputVars, treeVars, elapsed, legal_moves, master_move_stats,
                   total_evaluation_count, probeVars, result, calls, cycle_started_at>>

\* lines 123-132: one more solver iteration begins at the root
MCTS_PlayoutStart ==
    /\ ai = "MCTS" /\ pc = "m_iter"
    /\ iter < SOLVER_ITERATIONS
    /\ total_playout_count' = total_playout_count + 1
    /\ node' = 1
    /\ moves_in_tree' = {}
    /\ playout' = NoPlayout
    /\ cycle_started_at' = elapsed
    /\ pc' = "m_select"
    /\ UNCHANGED <<inputVars, elapsed, legal_moves, master_move_stats,
                   total_evaluation_count, probeVars, tree, iter, worlds, result, calls>>

\* the expanded action read but left in the list
after_pop_kept(untried_actions) == untried_actions

\* line 48: untried_actions once pop() has taken its last element
after_pop(untried_actions) == SubSeq(untried_actions, 1, Len(untried_actions) - 1)

\* lines 134-141: one iteration of the selection loop, expand or descend
MCTS_SelectStep ==
    /\ ai = "MCTS" /\ pc = "m_select"
    /\ ~is_terminal(tree[node].game_state)
    /\ IF ~is_fully_expanded(tree[node])
       THEN \* MCTSNode.expand
            LET untried == tree[node].untried_actions
                action == untried[Len(untried)]
            IN  /\ calls' = [calls EXCEPT
                               !.process_action = TRUE,
                               !.on_terminal = @ \/ is_terminal(tree[node].game_state)]
                /\ \E o \in process_action(tree[node].game_state, action) :
                    IF o.status = "ok"
                    THEN \E child_node \in MCTSNode(o.state, node, action) :
                           /\ tree' = Append(
                                [tree EXCEPT
                                    ![node].untried_actions = after_pop(untried),
                                    ![node].children = Append(@, Len(tree) + 1)],
                                child_node)
                           /\ node' = Len(tree) + 1
                           /\ moves_in_tree' = moves_in_tree \cup {action}
                           /\ pc' = "m_sim"
                    ELSE /\ pc' = "raised"
                         /\ UNCHANGED <<tree, walkVars>>
       ELSE IF best_child_raises(tree, node)
            THEN pc' = "raised" /\ UNCHANGED <<tree, walkVars, calls>>
            ELSE \E c \in best_child(tree, node) :
                    /\ node' = c
                    /\ moves_in_tree' = moves_in_tree \cup {tree[c].action}
                    /\ pc' = "m_select"
                    /\ UNCHANGED <<tree, calls>>
    /\ UNCHANGED <<inputVars, playout, elapsed, legal_moves, master_move_stats,
                   total_evaluation_count, probeVars, total_playout_count, iter, worlds,
                   result, cycle_started_at>>

\* line 134, condition false: the walk stands on a terminal node
MCTS_SelectTerminal ==
    /\ ai = "MCTS" /\ pc = "m_select"
    /\ is_terminal(tree[node].game_state)
    /\ pc' = "m_sim"
    /\ UNCHANGED <<inputVars, treeVars, elapsed, legal_moves, master_move_stats,
                   total_evaluation_count, probeVars, result, calls, cycle_started_at>>

\* simulate has reached its end: step limit, a winner, or no move
simulate_over(s, i) ==
    i >= SIMULATE_LIMIT \/ get_winner_index(s) # -1 \/ get_legal_moves(s) = <<>>

\* one iteration of the loop of simulate from <<state, moves_in_sim, status,
\* on_terminal>>: a random legal move is applied and recorded; on_terminal
\* tells whether process_action has been called on a terminal state
simulate_step(x) ==
    LET moves == get_legal_moves(x[1])
        on_terminal == x[4] \/ is_terminal(x[1])
    IN  UNION { { IF o.status = "ok"
                  THEN <<o.state, x[2] \cup {moves[k]}, "ok", on_terminal>>
                  ELSE <<x[1], x[2], "raise", on_terminal>>
                  : o \in process_action(x[1], moves[k]) }
                : k \in 1..Len(moves) }

\* the runs of the loop from the frontier reached after i iterations: every
\* <<final state, moves_in_sim, status, on_terminal>> the loop can end with
RECURSIVE simulate_runs(_, _)
simulate_runs(frontier, i) ==
    LET halted == { x \in frontier : x[3] = "raise" \/ simulate_over(x[1], i) }
        running == frontier \ halted
    IN  IF running = {} THEN halted
        ELSE halted \cup simulate_runs(UNION { simulate_step(x) : x \in running }, i + 1)

\* MCTS_AI.simulate: every (sim_state, moves_in_sim) it can return from the
\* clone of state_to_sim_from, or a raised error
simulate(state_to_sim_from) ==
    simulate_runs({<<state_to_sim_from, {}, "ok", FALSE>>}, 0)

\* lines 144-153: simulate from the reached node, then backpropagate
MCTS_SimulateBackpropagate ==
    /\ ai = "MCTS" /\ pc = "m_sim"
    /\ \E run \in simulate(tree[node].game_state) :
        IF run[3] = "ok"
        THEN /\ tree' = backpropagate(tree, node, run[1],
                                     initial_state.current_player_index,
                                     moves_in_tree, run[2])
             /\ playout' = [final_sim_state |-> run[1], moves_in_sim |-> run[2]]
             /\ iter' = iter + 1
             /\ calls' = [calls EXCEPT !.process_action = @ \/ run[2] # {},
                                       !.on_terminal = @ \/ run[4]]
             /\ pc' = "m_iter"
        ELSE pc' = "raised" /\ UNCHANGED <<tree, playout, iter, calls>>
    /\ UNCHANGED <<inputVars, elapsed, legal_moves, master_move_stats,
                   total_evaluation_count, probeVars, total_playout_count, walkVars,
                   worlds, result, cycle_started_at>>

\* the merge with = in place of +=: a world overwrites the earlier ones
aggregate_overwrite(all_stats, nodes, moves) ==
    [i \in 1..Len(moves) |->
        IF \E k \in 1..Len(nodes[1].children) :
                nodes[nodes[1].children[k]].action = moves[i]
        THEN [wins |-> ChildSum(nodes, nodes[1].children, moves[i], "wins"),
              visits |-> ChildSum(nodes, nodes[1].children, moves[i], "visits")]
        ELSE all_stats[i]]

\* lines 156-160: the statistics of the root's children are added to the
\* entries of their moves
aggregate(all_stats, nodes, moves) ==
    [i \in 1..Len(moves) |->
        [wins |-> all_stats[i].wins
                    + ChildSum(nodes, nodes[1].children, moves[i], "wins"),
         visits |-> all_stats[i].visits
                    + ChildSum(nodes, nodes[1].children, moves[i], "visits")]]

\* lines 155-160: merge the root children of the finished world
MCTS_Aggregate ==
    /\ ai = "MCTS" /\ pc = "m_iter"
    /\ iter >= SOLVER_ITERATIONS
    /\ master_move_stats' = aggregate(master_move_stats, tree, legal_moves)
    /\ pc' = "m_looptop"
    /\ UNCHANGED <<inputVars, treeVars, elapsed, legal_moves, total_evaluation_count,
                   probeVars, result, calls, cycle_started_at>>

\* lines 162-171: the final decision, the most visited move
MCTS_FinalDecision ==
    /\ ai = "MCTS" /\ pc = "m_final"
    /\ IF total_playout_count = 0
       THEN \E i \in 1..Len(legal_moves) : result' = Return(legal_moves[i], 0)
       ELSE result' = Return(legal_moves[greedy_choice(master_move_stats)],
                             total_playout_count)
    /\ pc' = "done"
    /\ UNCHANGED <<inputVars, treeVars, elapsed, legal_moves, master_move_stats,
                   total_evaluation_count, probeVars, calls, cycle_started_at>>

(***************************************************************************)
(* Configuration: ccg_ai.py, analyzer.py                                   *)
(***************************************************************************)
\* Python values passed as `options`: a dict carries its items, a list or a
\* str its length, an int its value
EmptyItems == [k \in {} |-> 0]
PyValue(type, len, value, items) ==
    [type |-> type, len |-> len, value |-> value, items |-> items]
PyNone == PyValue("NoneType", 0, 0, EmptyItems)
PyDict(items) == PyValue("dict", Cardinality(DOMAIN items), 0, items)
PyList(len) == PyValue("list", len, 0, EmptyItems)
PyStr(len) == PyValue("str", len, 0, EmptyItems)
PyInt(value) == PyValue("int", 0, value, EmptyItems)

\* the truth value Python's `if options:` tests
bool(v) ==
    IF v.type = "NoneType" THEN FALSE
    ELSE IF v.type = "int" THEN v.value # 0
    ELSE v.len # 0

\* dict.update
dict_update(base, other) ==
    [k \in DOMAIN base \cup DOMAIN other |->
        IF k \in DOMAIN other THEN other[k] ELSE base[k]]

\* CCG_AI.DEFAULT_OPTIONS: the later of two equal keys wins
CCG_AI_DEFAULT_OPTIONS ==
    [max_score_swing |-> 100, evaluation_limit |-> Inf, time_limit_ms |-> Inf,
     exploration_weight |-> 141, blunder_chance |-> 0, recon_depth |-> 10,
     probes_per_world |-> 10, temperature |-> 100]

\* how a configuration call ends and the options in force afterwards
Configured(status, opts) == [status |-> status, options |-> opts]

\* CCG_AI.set_options
CCG_AI_set_options(self_options, new_options) ==
    IF new_options.type # "dict" THEN Configured("raise", self_options)
    ELSE Configured("ok", dict_update(self_options, new_options.items))

\* CCG_AI.__init__
CCG_AI_init(new_options) ==
    IF bool(new_options)
    THEN CCG_AI_set_options(CCG_AI_DEFAULT_OPTIONS, new_options)
    ELSE Configured("ok", CCG_AI_DEFAULT_OPTIONS)

\* analyzer.py DEFAULT_OPTIONS
DEFAULT_OPTIONS == [total_simulation_limit |-> 10000, time_limit_ms |-> 5000]

\* analyzer.deep_merge, on options whose values are numbers
deep_merge(base_dict, update_dict) ==
    [k \in DOMAIN base_dict \cup DOMAIN update_dict |->
        IF k \in DOMAIN update_dict THEN update_dict[k] ELSE base_dict[k]]

MonteCarloAnalyzer_set_options(self_options, new_options) ==
    IF new_options.type # "dict" THEN Configured("raise", self_options)
    ELSE Configured("ok", deep_merge(self_options, new_options.items))

\* MonteCarloAnalyzer.__init__
MonteCarloAnalyzer_init(new_options) ==
    IF bool(new_options)
    THEN MonteCarloAnalyzer_set_options(DEFAULT_OPTIONS, new_options)
    ELSE Configured("ok", DEFAULT_OPTIONS)

(***************************************************************************)
(* MonteCarloAnalyzer.analyze_moves: analyzer.py                           *)
(***************************************************************************)
ROLLOUT_LIMIT == 250
\* the None that _random_rollout returns when its step limit is used up
NoWinner == -3

Rolled(status, winner) == [status |-> status, winner |-> winner]

\* a rollout returns a winner only, and past turn 1 no rule reads
\* turn_number: its states are kept apart by everything but the turn count
turn_forgotten(s) == [s EXCEPT !.turn_number = IF @ > 1 THEN 2 ELSE @]

\* _random_rollout from the states reached after i iterations of its loop:
\* every value it can return, or a raised error (a state without a legal
\* move calls get_winner, which GameState does not have).  Once the set of
\* reached states is one met before, the loop only repeats what it has done
\* until its step limit returns None.
RECURSIVE rollout_runs(_, _, _)
rollout_runs(frontier, met, i) ==
    IF frontier = {} THEN {}
    ELSE IF i >= ROLLOUT_LIMIT \/ frontier \in met THEN {Rolled("ok", NoWinner)}
    ELSE LET over == { s \in frontier : is_terminal(s) }
             stuck == { s \in frontier \ over : get_legal_moves(s) = <<>> }
             running == frontier \ (over \cup stuck)
             outcomes ==
                UNION { UNION { process_action(s, get_legal_moves(s)[k])
                                : k \in 1..Len(get_legal_moves(s)) }
                        : s \in running }
         IN  { Rolled("ok", get_winner_index(s)) : s \in over }
                \cup { Rolled("raise", NoWinner) : s \in stuck }
                \cup (IF Fails(outcomes) THEN {Rolled("raise", NoWinner)} ELSE {})
                \cup rollout_runs({ turn_forgotten(s) : s \in OkStates(outcomes) },
                                  met \cup {frontier}, i + 1)

random_rollout(state) == rollout_runs({turn_forgotten(state)}, {}, 0)

\* line 67: the entries of move_data_map, one per key str(move); the entry of
\* the move at index i is the one of the first equal move in the list
move_data_key(moves, i) == CHOOSE j \in 1..Len(moves) :
    moves[j] = moves[i] /\ \A k \in 1..(j - 1) : moves[k] # moves[i]

FreshMoveData(moves) == [i \in 1..Len(moves) |-> [wins |-> 0, sims |-> 0]]

\* the move a simulation is given when every simulation goes to the first move
move_index_first(sims_run_count, num_moves) == 0

\* line 76: the moves take their simulations in turn
move_index(sims_run_count, num_moves) == sims_run_count % num_moves

\* lines 84-86: one simulation of the move at index i is entered
record_simulation(move_data, moves, i, winner, perspective_player) ==
    LET key == move_data_key(moves, i)
    IN  [move_data EXCEPT
            ![key].wins = IF winner = perspective_player THEN @ + 1 ELSE @,
            ![key].sims = @ + 1]

MaxSims == 4
SimulationLimits == 0..MaxSims
AnalyzerOptions ==
    { [total_simulation_limit |-> n, time_limit_ms |-> tl]
      : n \in SimulationLimits, tl \in {0, 1, Inf} }

\* states late in a game, resources at their maximum and the decks used up.
\* Nothing to play and no unit: PASS is the only move
AnalyzerForced ==
    GameState(PlayerState(2, MAX_RESOURCE, <<>>, <<>>, <<>>, <<None>>),
              PlayerState(1, MAX_RESOURCE, <<>>, <<>>, <<>>, <<None>>), 0, 3, MainPhase)

\* a ready unit facing a defender at 1 health: DECLARE_ATTACK 0, PASS
AnalyzerTwo == [AnalyzerForced EXCEPT !.players[1].board = <<ReadyUnit>>]

\* and an action card in hand: PLAY_ACTION 0, DECLARE_ATTACK 0, PASS
AnalyzerThree == [AnalyzerTwo EXCEPT !.players[1].hand = <<2>>]

AnalyzerRoots == {RootNoMoves, AnalyzerForced, AnalyzerTwo, AnalyzerThree}

\* lines 51-67: options, legal moves, the empty report or the fresh table
Analyzer_Setup ==
    /\ ai = "ANALYZER" /\ pc = "start"
    /\ legal_moves' = get_legal_moves(initial_state)
    /\ IF legal_moves' = <<>>
       THEN /\ result' = Return(NoMove, 0)
            /\ pc' = "done"
            /\ UNCHANGED <<master_move_stats, total_evaluation_count, elapsed>>
       ELSE /\ master_move_stats' = FreshMoveData(legal_moves')
            /\ total_evaluation_count' = 0
            /\ elapsed' = 0
            /\ pc' = "looptop"
            /\ UNCHANGED result
    /\ UNCHANGED <<inputVars, treeVars, probeVars, calls, cycle_started_at>>

\* lines 71-74: the loop goes on
analyzer_continues(sims_run_count, t, opt) ==
    sims_run_count < opt.total_simulation_limit /\ ~(t > opt.time_limit_ms)

\* lines 76-87: one simulation: a world, the move of this round, a rollout
Analyzer_Simulate ==
    /\ ai = "ANALYZER" /\ pc = "looptop"
    /\ analyzer_continues(total_evaluation_count, elapsed, options)
    /\ LET perspective_player == initial_state.current_player_index
           i == move_index(total_evaluation_count, Len(legal_moves)) + 1
       IN  \E world_state \in determinize(initial_state, perspective_player) :
             \E o \in process_action(world_state, legal_moves[i]) :
               IF o.status # "ok"
               THEN pc' = "raised" /\ UNCHANGED <<master_move_stats, total_evaluation_count>>
               ELSE \E r \in random_rollout(o.state) :
                      IF r.status # "ok"
                      THEN /\ pc' = "raised"
                           /\ UNCHANGED <<master_move_stats, total_evaluation_count>>
                      ELSE /\ master_move_stats' =
                                record_simulation(master_move_stats, legal_moves, i,
                                                  r.winner, perspective_player)
                           /\ total_evaluation_count' = total_evaluation_count + 1
                           /\ pc' = "looptop"
    /\ UNCHANGED <<inputVars, treeVars, probeVars, elapsed, legal_moves, result, calls,
                   cycle_started_at>>

\* lines 71-74 and 89-113: the loop ends, the report and sims_run are returned
Analyzer_Return ==
    /\ ai = "ANALYZER" /\ pc = "looptop"
    /\ ~analyzer_continues(total_evaluation_count, elapsed, options)
    /\ result' = Return(NoMove, total_evaluation_count)
    /\ pc' = "done"
    /\ UNCHANGED <<inputVars, treeVars, probeVars, elapsed, legal_moves,
                   master_move_stats, total_evaluation_count, calls, cycle_started_at>>

\* the values handed over as options
OptionArgs ==
    { PyNone, PyDict(EmptyItems), PyDict([temperature |-> 0]),
      PyDict([evaluation_limit |-> 2, time_limit_ms |-> 1]),
      PyDict([total_simulation_limit |-> 3]),
      PyList(0), PyList(1), PyStr(0), PyStr(1), PyInt(0), PyInt(5) }

NoInstance == [class |-> "none", options |-> EmptyItems]

(***************************************************************************)
(* Calls on the game state and on the configuration                        *)
(***************************************************************************)
MaxIndex == 2
MaxTurn == 5

\* Main phase of turn 3 on two-slot boards: a ready unit in slot 0, a unit
\* card and an action card in hand, resource for one of them
RootPlay ==
    GameState(PlayerState(2, 1, <<1, 2>>, <<1, 2>>, <<>>, <<ReadyUnit, None>>),
              PlayerState(2, 0, <<2, 1>>, <<2>>, <<1>>, <<None, None>>),
              0, 3, MainPhase)

\* DeclareDefender phase of the same turn: player 0 attacks from slot 0, the
\* defender holds a unit and hidden cards
RootDefend ==
    GameState(PlayerState(2, 0, <<1, 2>>, <<2>>, <<>>,
                          <<[ReadyUnit EXCEPT !.combat_status = "ATTACKING"], None>>),
              PlayerState(2, 1, <<2, 1>>, <<1, 2>>, <<>>, <<None, ReadyUnit>>),
              1, 3, DeclareDefenderPhase(0, 0))

\* Main phase late in a game: both decks are used up, the opponent's cards
\* lie in the graveyard
RootReshuffle ==
    GameState(PlayerState(2, 1, <<>>, <<2>>, <<>>, <<None>>),
              PlayerState(2, 0, <<>>, <<>>, <<1, 2>>, <<None>>),
              0, 3, MainPhase)

GameRoots == {RootPlay, RootAttack, RootDefend, RootReshuffle}

\* the actions a caller may hand to process_action, valid or not
TriedActions ==
    { <<"PLAY_UNIT", h, slot>> : h \in 0..MaxIndex, slot \in 0..MaxIndex }
    \cup { <<kind, i, -1>> :
             kind \in {"PLAY_ACTION", "DECLARE_ATTACK", "ASSIGN_BLOCKER"},
             i \in 0..MaxIndex }
    \cup {PASS, TAKE_DAMAGE}

IsLegal(s, action) ==
    \E i \in 1..Len(get_legal_moves(s)) : get_legal_moves(s)[i] = action

CallRecord(op, player_index, action, arg, before, state, receiver, status, options_before, options_after) ==
    [op |-> op, player_index |-> player_index, action |-> action, arg |-> arg, value |-> 0,
     before |-> before, state |-> state, receiver |-> receiver, status |-> status,
     options_before |-> options_before, options_after |-> options_after]

NoCall ==
    CallRecord("none", -1, NoMove, PyNone, NoState, NoState, NoState, "none",
               EmptyItems, EmptyItems)

GameCall(op, player_index, action, before, o) ==
    CallRecord(op, player_index, action, PyNone, before, o.state, o.receiver,
               o.status, EmptyItems, EmptyItems)

ConfigCall(op, arg, options_before, c) ==
    CallRecord(op, -1, NoMove, arg, NoState, NoState, NoState, c.status,
               options_before, c.options)

\* initial_state.determinize(player_index): the holder keeps the receiver
Game_determinize ==
    /\ ai = "GAME"
    /\ \E player_index \in {0, 1} :
         \E o \in determinize_call(initial_state, player_index) :
            /\ call' = GameCall("determinize", player_index, NoMove, initial_state, o)
            /\ initial_state' = o.receiver
    /\ UNCHANGED <<ai, instance, turn_log, appVars, searchVars>>

\* state.process_action(action) with any action: the holder keeps the receiver
Game_process_action ==
    /\ ai = "GAME"
    /\ \E action \in TriedActions :
         \E o \in process_action_call(initial_state, action) :
            /\ call' = GameCall("process_action", -1, action, initial_state, o)
            /\ initial_state' = o.receiver
    /\ UNCHANGED <<ai, instance, turn_log, appVars, searchVars>>

\* the log of the turn under way in a state handed to the game loop: the
\* attack a DeclareDefender phase is resolving has been declared in it
logged_so_far(s) ==
    IF s.current_phase.name = "DeclareDefender"
    THEN << <<"DECLARE_ATTACK", s.current_phase.attacking_player_idx,
              s.current_phase.attacker_slot_idx>> >>
    ELSE <<>>

\* the log after `action` of player `p`: a PASS ends the turn, the play of a
\* unit and the declaration of an attack are entered with player and slot
logged(log, p, action) ==
    IF action[1] = "PASS" THEN <<>>
    ELSE IF action[1] = "PLAY_UNIT" THEN Append(log, <<"PLAY_UNIT", p, action[3]>>)
    ELSE IF action[1] = "DECLARE_ATTACK" THEN Append(log, <<"DECLARE_ATTACK", p, action[2]>>)
    ELSE log

\* the game loop: game_state = game_state.process_action(action) with a
\* move chosen among the legal ones
Main_ApplyAction ==
    /\ ai \in {"GAME", "PLAY"}
    /\ initial_state.turn_number < MaxTurn
    /\ ~is_terminal(initial_state)
    /\ \E i \in 1..Len(get_legal_moves(initial_state)) :
         LET action == get_legal_moves(initial_state)[i]
         IN  \E o \in process_action_call(initial_state, action) :
                /\ o.status = "ok"
                /\ call' = GameCall("process_action", -1, action, initial_state, o)
                /\ initial_state' = o.state
                /\ turn_log' = logged(turn_log, initial_state.current_player_index, action)
    /\ UNCHANGED <<ai, instance, appVars, searchVars>>

\* a deck of n cards: action cards and, second from the top, one unit card
Deck(n) == [i \in 1..n |-> IF i = 2 THEN 1 ELSE 2]

\* a GameState as constructed, before its first Upkeep: no player to act yet,
\* turn 0, the decks not dealt
NewGame(deck0, deck1) ==
    GameState(PlayerState(2, 0, deck0, <<>>, <<>>, <<None>>),
              PlayerState(2, 0, deck1, <<>>, <<>>, <<None>>),
              -1, 0, UpkeepPhase)

MaxDeck == 8
DeckSizes == {0, 1, MAX_HAND_SIZE - 1, MAX_HAND_SIZE, MaxDeck}
NewGames == { NewGame(Deck(n0), Deck(n1)) : n0, n1 \in DeckSizes }

\* Main phase of turn 3 with a full hand on one side and a hand one short of
\* full on the other
RootFullHand ==
    GameState(PlayerState(2, 1, Deck(2), Deck(MAX_HAND_SIZE - 1), <<>>, <<None>>),
              PlayerState(2, 1, Deck(2), Deck(MAX_HAND_SIZE), <<>>, <<None>>),
              0, 3, MainPhase)

PlayRoots == NewGames \cup {RootFullHand}

\* the start of a game: the new state enters its first Upkeep, which deals
\* the hands
Play_StartGame ==
    /\ ai = "PLAY"
    /\ initial_state.current_phase = UpkeepPhase
    /\ call = NoCall
    /\ \E o \in UpkeepPhase_on_enter(initial_state) :
          /\ call' = GameCall("on_enter", -1, NoMove, initial_state,
                              Finished(o.status, o.state, initial_state))
          /\ initial_state' = IF o.status = "ok" THEN o.state ELSE initial_state
    /\ UNCHANGED <<ai, instance, turn_log, appVars, searchVars>>

\* finished games and games in progress, as handed to an evaluation
RootLost == [RootTerminal EXCEPT !.current_player_index = 1]
\* both players at 0 health: no sequence of moves leads here (only the
\* defender loses health), the state is built directly
RootDraw == [RootTerminal EXCEPT !.players[1].health = 0]
EvalStates == {RootTerminal, RootLost, RootDraw, RootPlay, RootAttack}

EvalWeights ==
    { [my_eval |-> my, opp_eval |-> opp, symmetrical |-> sym, max_score_swing |-> 2]
      : my \in {NoWeights, Weights(1, 1, 1)}, opp \in {NoWeights, Weights(1, 0, 0)},
        sym \in BOOLEAN }

\* state.get_score(eval_weights)
Eval_get_score ==
    /\ ai = "EVAL"
    /\ \E eval_weights \in EvalWeights :
         LET v == get_score_weighted(initial_state, eval_weights)
             o == Finished(v.status, initial_state, initial_state)
         IN  call' = [GameCall("get_score", initial_state.current_player_index,
                               NoMove, initial_state, o) EXCEPT !.value = v.value]
    /\ UNCHANGED <<ai, initial_state, instance, turn_log, appVars, searchVars>>

\* lines 214-228 of backpropagate: the reward of a final state for a search player
Eval_reward_for_search_player ==
    /\ ai = "EVAL"
    /\ \E search_player_index \in {0, 1} :
         LET v == reward_for_search_player(initial_state, search_player_index)
             o == Finished("ok", initial_state, initial_state)
         IN  call' = [GameCall("reward_for_search_player", search_player_index,
                               NoMove, initial_state, o) EXCEPT !.value = v]
    /\ UNCHANGED <<ai, initial_state, instance, turn_log, appVars, searchVars>>

\* CCG_AI(options)
Config_CCG_AI_init ==
    /\ ai = "CONFIG"
    /\ instance = NoInstance
    /\ \E arg \in OptionArgs :
         LET c == CCG_AI_init(arg)
         IN  /\ call' = ConfigCall("CCG_AI.__init__", arg, CCG_AI_DEFAULT_OPTIONS, c)
             /\ instance' = IF c.status = "ok"
                            THEN [class |-> "CCG_AI", options |-> c.options]
                            ELSE instance
    /\ UNCHANGED <<ai, initial_state, turn_log, appVars, searchVars>>

\* ai.set_options(options) on a CCG_AI
Config_CCG_AI_set_options ==
    /\ ai = "CONFIG"
    /\ instance.class = "CCG_AI"
    /\ \E arg \in OptionArgs :
         LET c == CCG_AI_set_options(instance.options, arg)
         IN  /\ call' = ConfigCall("CCG_AI.set_options", arg, instance.options, c)
             /\ instance' = [instance EXCEPT !.options = c.options]
    /\ UNCHANGED <<ai, initial_state, turn_log, appVars, searchVars>>

\* MonteCarloAnalyzer(options)
Config_MonteCarloAnalyzer_init ==
    /\ ai = "CONFIG"
    /\ instance = NoInstance
    /\ \E arg \in OptionArgs :
         LET c == MonteCarloAnalyzer_init(arg)
         IN  /\ call' = ConfigCall("MonteCarloAnalyzer.__init__", arg, DEFAULT_OPTIONS, c)
             /\ instance' = IF c.status = "ok"
                            THEN [class |-> "MonteCarloAnalyzer", options |-> c.options]
                            ELSE instance
    /\ UNCHANGED <<ai, initial_state, turn_log, appVars, searchVars>>

\* analyzer.set_options(options)
Config_MonteCarloAnalyzer_set_options ==
    /\ ai = "CONFIG"
    /\ instance.class = "MonteCarloAnalyzer"
    /\ \E arg \in OptionArgs :
         LET c == MonteCarloAnalyzer_set_options(instance.options, arg)
         IN  /\ call' = ConfigCall("MonteCarloAnalyzer.set_options", arg,
                                   instance.options, c)
             /\ instance' = [instance EXCEPT !.options = c.options]
    /\ UNCHANGED <<ai, initial_state, turn_log, appVars, searchVars>>

(***************************************************************************)
(* The clock and the specification                                         *)
(***************************************************************************)
\* The wall clock advances while a search runs.  Both drivers read it only
\* at their loop tops, so its advance is taken between two cycles.
Tick ==
    /\ pc \in {"looptop", "m_looptop", "m_iter"}
    /\ elapsed < MaxClock
    /\ elapsed' = elapsed + 1
    /\ UNCHANGED <<inputVars, treeVars, pc, legal_moves, master_move_stats,
                   total_evaluation_count, probeVars, result, calls, cycle_started_at>>

\* nothing has run yet
Idle ==
    /\ pc = "start"
    /\ elapsed = 0
    /\ legal_moves = <<>>
    /\ master_move_stats = <<>>
    /\ total_evaluation_count = 0
    /\ current_determinized_state = NoState
    /\ best_move_to_probe = 0
    /\ current_state = NoState
    /\ depth = 0
    /\ tree = <<>>
    /\ total_playout_count = 0
    /\ iter = 0
    /\ node = 0
    /\ moves_in_tree = {}
    /\ worlds = 0
    /\ playout = NoPlayout
    /\ result = NoResult
    /\ calls = NoCalls
    /\ cycle_started_at = 0
    /\ call = NoCall
    /\ instance = NoInstance
    /\ turn_log = logged_so_far(initial_state)
    /\ app_state = "LOBBY"
    /\ game_settings = NoSettings
    /\ game = NoState
    /\ previous_player_idx = -1
    /\ rendered = NoRender

Init ==
    /\ \/ /\ ai = "CCG"
          /\ \/ initial_state \in ShortRoots /\ options \in AllOptions
             \/ initial_state \in SearchRoots /\ options \in SearchOptions
       \/ /\ ai = "MCTS"
          /\ initial_state \in ShortRoots \cup TreeRoots
          /\ options \in TreeOptions
    /\ Idle

Next ==
    \/ CCG_Setup
    \/ CCG_BlunderDraw
    \/ CCG_LoopExit
    \/ CCG_ProbeStart
    \/ CCG_PlayoutStep
    \/ CCG_ScoreAndUpdate
    \/ CCG_FinalDecision
    \/ MCTS_Setup
    \/ MCTS_WorldStart
    \/ MCTS_LoopExit
    \/ MCTS_PlayoutStart
    \/ MCTS_SelectStep
    \/ MCTS_SelectTerminal
    \/ MCTS_SimulateBackpropagate
    \/ MCTS_Aggregate
    \/ MCTS_FinalDecision
    \/ Tick

Spec == Init /\ [][Next]_vars

\* CCG_AI.find_best_move alone, under every combination of the two budgets
BudgetOptions ==
    { Options(tl, el, 2, 0, 0, 1) : tl \in TimeLimits, el \in EvalLimits }

CCG_Init ==
    /\ Init
    /\ ai = "CCG"
    /\ initial_state = RootAttack
    /\ options \in BudgetOptions

\* every step of CCG_AI.find_best_move, the clock left out
CCG_Step ==
    \/ CCG_Setup
    \/ CCG_BlunderDraw
    \/ CCG_LoopExit
    \/ CCG_ProbeStart
    \/ CCG_PlayoutStep
    \/ CCG_ScoreAndUpdate
    \/ CCG_FinalDecision

CCG_Next == CCG_Step \/ Tick

\* MCTS_AI.find_best_move alone
MCTS_Init == Init /\ ai = "MCTS"

\* every step of MCTS_AI.find_best_move, the clock left out
MCTS_Step ==
    \/ MCTS_Setup
    \/ MCTS_WorldStart
    \/ MCTS_LoopExit
    \/ MCTS_PlayoutStart
    \/ MCTS_SelectStep
    \/ MCTS_SelectTerminal
    \/ MCTS_SimulateBackpropagate
    \/ MCTS_Aggregate
    \/ MCTS_FinalDecision

MCTS_Next == MCTS_Step \/ Tick

TreeSpec == MCTS_Init /\ [][MCTS_Next]_vars

\* the game state and the configuration called directly, outside a search
Call_Init ==
    /\ \/ ai = "GAME" /\ initial_state \in GameRoots
       \/ ai = "CONFIG" /\ initial_state = NoState
       \/ ai = "EVAL" /\ initial_state \in EvalStates
    /\ options = Options(Inf, Inf, 1, 0, 0, 1)
    /\ Idle

Call_Next ==
    \/ Game_determinize
    \/ Game_process_action
    \/ Main_ApplyAction
    \/ Config_CCG_AI_init
    \/ Config_CCG_AI_set_options
    \/ Config_MonteCarloAnalyzer_init
    \/ Config_MonteCarloAnalyzer_set_options
    \/ Eval_get_score
    \/ Eval_reward_for_search_player

CallSpec == Call_Init /\ [][Call_Next]_vars

\* a game played from its construction, or from a state late in a game, with
\* legal moves
Play_Init ==
    /\ ai = "PLAY" /\ initial_state \in PlayRoots
    /\ options = Options(Inf, Inf, 1, 0, 0, 1)
    /\ Idle

Play_Next ==
    \/ Play_StartGame
    \/ Main_ApplyAction

PlaySpec == Play_Init /\ [][Play_Next]_vars

\* MonteCarloAnalyzer.analyze_moves, the clock included
Analyzer_Init ==
    /\ ai = "ANALYZER" /\ initial_state \in AnalyzerRoots
    /\ options \in AnalyzerOptions
    /\ Idle

Analyzer_Next ==
    \/ Analyzer_Setup
    \/ Analyzer_Simulate
    \/ Analyzer_Return
    \/ Tick

AnalyzerSpec == Analyzer_Init /\ [][Analyzer_Next]_vars

(***************************************************************************)
(* GameApplication and GameRunner: main.py                                 *)
(***************************************************************************)
GameModes == {"PVP", "PVE", "AVA"}

MODE_PLAYER_SETUP(mode) ==
    IF mode = "PVP" THEN <<"HUMAN", "HUMAN">>
    ELSE IF mode = "PVE" THEN <<"HUMAN", "AI">>
    ELSE <<"AI", "AI">>

is_human(player) == player = "HUMAN"

\* line 176: the index of the first human player, -1 without one
human_player_index(players) ==
    IF \E i \in 1..Len(players) : is_human(players[i])
    THEN (CHOOSE i \in 1..Len(players) :
            is_human(players[i]) /\ \A j \in 1..(i - 1) : ~is_human(players[j])) - 1
    ELSE -1

\* the three lambdas of run_lobby, by what they return
Provider(returns, hpi) == [returns |-> returns, human_player_index |-> hpi]

\* lines 177-182: an if statement, then a second if statement with the else
\* branch; the second statement binds pov_provider in every mode, whatever
\* the first one bound
pov_provider_for(mode, players) ==
    LET hpi == human_player_index(players)
        unbound == Provider("none", -1)
        after_first_if == IF mode = "PVE" THEN Provider("human_player_index", hpi)
                          ELSE unbound
        after_second_if(bound) == IF mode = "AVA" THEN Provider("neutral", hpi)
                                  ELSE Provider("current_idx", hpi)
    IN  after_second_if(after_first_if)

\* the call pov_provider(current_idx)
get_pov_for_render(pov_provider, current_idx) ==
    IF pov_provider.returns = "human_player_index" THEN pov_provider.human_player_index
    ELSE IF pov_provider.returns = "neutral" THEN -1
    ELSE current_idx

\* render_game_state(state, pov_player_index): ui.py lines 82-91, the player
\* whose hand is shown as the viewer's own (both hands in the neutral view)
hands_shown(pov_player_index) ==
    IF pov_player_index # -1 THEN {pov_player_index} ELSE {0, 1}

Render(pov, current_idx, over) ==
    [pov_player_index |-> pov, current_player_idx |-> current_idx, game_over |-> over]

\* run_lobby: a mode is chosen, the players and the POV strategy are stored
App_run_lobby ==
    /\ ai = "APP" /\ app_state = "LOBBY"
    /\ \E mode \in GameModes :
         LET players == MODE_PLAYER_SETUP(mode)
         IN  game_settings' = [mode |-> mode, players |-> players,
                               pov_provider |-> pov_provider_for(mode, players)]
    /\ app_state' = "IN_GAME"
    /\ UNCHANGED <<ai, initial_state, options, call, instance, turn_log, game,
                   previous_player_idx, rendered, searchVars>>

\* the games run_game starts: two full decks, the hands dealt by the first
\* Upkeep; at 1 health the game is over within the turns explored
StartHealths == {1, 2}
StartedGames ==
    UNION { OkStates(UpkeepPhase_on_enter(
                [NewGame(Deck(MaxDeck), Deck(MaxDeck))
                    EXCEPT !.players[1].health = h, !.players[2].health = h]))
            : h \in StartHealths }

\* start_game and the first lines of run_game
App_start_game ==
    /\ ai = "APP" /\ app_state = "IN_GAME" /\ game = NoState
    /\ game' \in StartedGames
    /\ previous_player_idx' = -1
    /\ rendered' = NoRender
    /\ UNCHANGED <<ai, initial_state, options, call, instance, turn_log, app_state,
                   game_settings, searchVars>>

\* the moves a turn of the loop can apply: the only legal one, the one a
\* human enters or the one the AI finds
QUIT_GAME == <<"QUIT_GAME", -1, -1>>
chosen_actions(s, player) ==
    LET r == get_legal_moves(s)
    IN  IF Len(r) = 1 THEN {r[1]}
        ELSE { r[i] : i \in 1..Len(r) } \cup (IF is_human(player) THEN {QUIT_GAME} ELSE {})

\* one turn of the loop of run_game, lines 68-121: the game-over check, the
\* render from the provider's point of view, the action chosen and applied
App_run_game_turn ==
    /\ ai = "APP" /\ app_state = "IN_GAME" /\ game # NoState
    /\ game.turn_number < MaxTurn
    /\ LET pov_provider == game_settings.pov_provider
           current_player_idx == game.current_player_index
           left ==
              /\ app_state' = "LOBBY" /\ game' = NoState
              /\ UNCHANGED previous_player_idx
       IN  IF get_winner_index(game) # -1
           THEN /\ rendered' = Render(get_pov_for_render(pov_provider, previous_player_idx),
                                      current_player_idx, TRUE)
                /\ left
           ELSE /\ rendered' = Render(get_pov_for_render(pov_provider, current_player_idx),
                                      current_player_idx, FALSE)
                /\ \E action \in chosen_actions(game,
                                    game_settings.players[current_player_idx + 1]) :
                     IF action = QUIT_GAME
                     THEN left
                     ELSE \E o \in process_action(game, action) :
                            /\ o.status = "ok"
                            /\ game' = o.state
                            /\ previous_player_idx' = current_player_idx
                            /\ UNCHANGED app_state
    /\ UNCHANGED <<ai, initial_state, options, call, instance, turn_log, game_settings,
                   searchVars>>

App_Init ==
    /\ ai = "APP" /\ initial_state = NoState /\ options = DEFAULT_OPTIONS
    /\ Idle

App_Next ==
    \/ App_run_lobby
    \/ App_start_game
    \/ App_run_game_turn

AppSpec == App_Init /\ [][App_Next]_vars

\* The interpreter keeps running the call (every collaborator call returns)
\* and the wall clock keeps advancing while the loop is being executed.
FairSpec == CCG_Init /\ [][CCG_Next]_vars /\ WF_vars(CCG_Step) /\ SF_vars(Tick)

(***************************************************************************)
(* Properties                                                              *)
(***************************************************************************)
RootMoves == get_legal_moves(initial_state)
Returned == pc = "done"
Searched == master_move_stats # <<>>

\* C1: for a state with exactly one legal move, find_best_move of CCG_AI and
\* of MCTS_AI returns exactly (that move, 1) and calls neither determinize nor
\* process_action, whatever time_limit_ms, evaluation_limit and blunder_chance
\* are: the call goes from its start straight to the return.
C1_ForcedMoveShortCircuit ==
    Len(RootMoves) = 1 =>
        /\ pc \in {"start", "done"}
        /\ calls.determinize = 0
        /\ ~calls.process_action
        /\ ~Searched
        /\ Returned => result = [move |-> RootMoves[1], count |-> 1]

\* C1, its case: CCG_AI has returned the forced move although the blunder
\* chance is 1 and both budgets are 0
C1_Witness ==
    /\ ai = "CCG" /\ Returned /\ Len(RootMoves) = 1
    /\ options.blunder_chance = 100
    /\ options.time_limit_ms = 0 /\ options.evaluation_limit = 0
    /\ result.count = 1

\* C2: for a state with zero legal moves, find_best_move of CCG_AI and of
\* MCTS_AI returns (None, 0) and performs no determinization, no probe and no
\* blunder draw.
C2_NoMoveReturnsNone ==
    Len(RootMoves) = 0 =>
        /\ pc \in {"start", "done"}
        /\ calls.determinize = 0
        /\ ~calls.process_action
        /\ calls.blunder = 0
        /\ total_evaluation_count = 0 /\ total_playout_count = 0
        /\ Returned => result = [move |-> NoMove, count |-> 0]

\* C2, its case: MCTS_AI has returned on a state without legal moves
C2_Witness ==
    /\ ai = "MCTS" /\ Returned /\ Len(RootMoves) = 0
    /\ result.move = NoMove

C4_VisitsEqualPlayouts ==
    (ai = "MCTS" /\ Returned /\ Len(legal_moves) >= 2) =>
        SumVisits(master_move_stats) = result.count

\* C4 amended: for every initial state with at least two legal moves that is
\* not terminal, the visits in master_move_stats add up to
\* total_playout_count after every world and at the final decision, and that
\* count is the one returned.
C4_VisitsEqualPlayoutsNonTerminal ==
    (ai = "MCTS" /\ Len(legal_moves) >= 2 /\ ~is_terminal(initial_state)
        /\ pc \in {"m_looptop", "m_final", "done"}) =>
        /\ SumVisits(master_move_stats) = total_playout_count
        /\ (Returned => result.count = total_playout_count)

\* C4, its case: MCTS_AI has returned after two worlds of ten playouts on a
\* state that is not terminal
C4_Witness ==
    /\ ai = "MCTS" /\ Returned /\ ~is_terminal(initial_state)
    /\ calls.determinize = 2
    /\ result.count = 2 * SOLVER_ITERATIONS
    /\ SumVisits(master_move_stats) = 2 * SOLVER_ITERATIONS

\* the configured budget is used up before the first probe
BudgetExhaustedAtStart ==
    \/ options.time_limit_ms = 0
    \/ ai = "CCG" /\ options.evaluation_limit = 0

\* C5: when the budget is already exhausted at the first loop-top check
\* (evaluation_limit = 0, or time_limit_ms = 0) on a state with at least two
\* legal moves, find_best_move completes zero probes and returns (m, 0) with
\* m one of the root's legal moves, raises no error and does not consult the
\* final-selection policy.
C5_ExhaustedBudgetZeroProbes ==
    (Len(RootMoves) >= 2 /\ BudgetExhaustedAtStart) =>
        /\ pc \notin {"playout", "m_iter", "m_select", "m_sim", "raised"}
        /\ total_evaluation_count = 0
        /\ total_playout_count = 0
        /\ calls.choose_final = 0
        /\ Returned =>
            /\ result.count = 0
            /\ \E i \in 1..Len(RootMoves) : result.move = RootMoves[i]

\* the call has ended
Ended == pc \in {"done", "raised"}

C8_NoCycleStartedAfterDeadline ==
    pc \in {"playout", "m_select", "m_sim"} =>
        cycle_started_at < options.time_limit_ms

\* C9: in CCG_AI.find_best_move the blunder check is made exactly once per
\* call and only after the search loop has completed; no blunder draw happens
\* before or during the search.
C9_BlunderDrawAfterSearch ==
    ai = "CCG" =>
        /\ calls.blunder <= 1
        /\ (calls.blunder > 0 => Searched /\ pc \in {"final", "done"})
        /\ (Returned /\ Len(legal_moves) >= 2 => calls.blunder = 1)

SomeVisited == \E i \in 1..Len(master_move_stats) : master_move_stats[i].visits > 0

Determinized == call.op = "determinize" /\ call.status = "ok"
Viewer(c) == c.player_index + 1
Opponent(c) == (1 - c.player_index) + 1

\* C13: determinize(s, p) returns a state with the same opponent hand length,
\* the same opponent deck length and the same hand and deck lengths of the
\* viewing player as s.
C13_DeterminizeKeepsLengths ==
    Determinized =>
        /\ Len(call.state.players[Opponent(call)].hand)
              = Len(call.before.players[Opponent(call)].hand)
        /\ Len(call.state.players[Opponent(call)].deck)
              = Len(call.before.players[Opponent(call)].deck)
        /\ Len(call.state.players[Viewer(call)].hand)
              = Len(call.before.players[Viewer(call)].hand)
        /\ Len(call.state.players[Viewer(call)].deck)
              = Len(call.before.players[Viewer(call)].deck)

\* a determinization that moved a card between the opponent's hand and deck
C13_Witness ==
    /\ Determinized
    /\ call.before.players[Opponent(call)].hand # <<>>
    /\ call.before.players[Opponent(call)].deck # <<>>
    /\ call.state.players[Opponent(call)].hand
          # call.before.players[Opponent(call)].hand

\* C14: determinize(s, p) keeps the multiset of cards in the opponent's hand
\* plus deck, the viewing player's hand card for card, the multiset of the
\* viewing player's deck, and health, resource, board and graveyard of both
\* players, current_player_index, turn_number and the phase.
C14_DeterminizeFrame ==
    Determinized =>
        LET a == call.before
            b == call.state
            me == Viewer(call)
            opp == Opponent(call)
        IN  /\ CardCount(b.players[opp].hand \o b.players[opp].deck)
                  = CardCount(a.players[opp].hand \o a.players[opp].deck)
            /\ b.players[me].hand = a.players[me].hand
            /\ CardCount(b.players[me].deck) = CardCount(a.players[me].deck)
            /\ \A p \in {1, 2} :
                  /\ b.players[p].health = a.players[p].health
                  /\ b.players[p].resource = a.players[p].resource
                  /\ b.players[p].board = a.players[p].board
                  /\ b.players[p].graveyard = a.players[p].graveyard
            /\ b.current_player_index = a.current_player_index
            /\ b.turn_number = a.turn_number
            /\ b.current_phase = a.current_phase

\* the viewing player holds two different cards and its deck came back in
\* another order
C14_Witness ==
    /\ Determinized
    /\ Len(call.before.players[Viewer(call)].hand) >= 2
    /\ call.before.players[Viewer(call)].hand[1]
          # call.before.players[Viewer(call)].hand[2]
    /\ call.state.players[Viewer(call)].deck # call.before.players[Viewer(call)].deck
    /\ call.before.players[Viewer(call)].board # <<None, None>>

\* C15: determinize(s, p) never modifies s: after the call every field of the
\* receiver is as it was before.
C15_DeterminizeLeavesReceiver ==
    call.op = "determinize" => call.receiver = call.before

\* the receiver is intact although the returned state differs from it
C15_Witness ==
    /\ Determinized
    /\ call.state # call.before
    /\ call.receiver = call.before
    /\ initial_state = call.before

\* C16: GameState.process_action(action) never modifies its receiver, both
\* when it returns a new state and when the phase raises part-way through.
C16_ProcessActionLeavesReceiver ==
    call.op = "process_action" => call.receiver = call.before

\* the phase raised after it had already written to the state it works on
C16_Witness ==
    /\ call.op = "process_action"
    /\ call.status = "raise"
    /\ call.state # call.before
    /\ call.receiver = call.before
    /\ initial_state = call.before

\* C17: applying a move that is not among the legal moves of a Main-phase
\* state always ends in an error and never returns a new state, for every
\* action kind, PLAY_UNIT included.
C17_InvalidMoveAlwaysErrors ==
    (/\ call.op = "process_action"
     /\ call.before.current_phase.name = "Main"
     /\ call.action[1] \in {"PLAY_UNIT", "PLAY_ACTION", "DECLARE_ATTACK"}
     /\ ~IsLegal(call.before, call.action)) => call.status = "raise"

\* a configuration call was handed something that is neither a dict nor None
NonMappingPassed ==
    /\ call.op \in {"CCG_AI.__init__", "CCG_AI.set_options",
                    "MonteCarloAnalyzer.__init__", "MonteCarloAnalyzer.set_options"}
    /\ call.arg.type \notin {"dict", "NoneType"}

\* C18: a non-mapping options object passed to set_options or to the CCG_AI /
\* MonteCarloAnalyzer constructor is always rejected with an error and the
\* options in force stay unchanged, falsy values ([], '', 0) included.
C18_NonMappingOptionsRejected ==
    NonMappingPassed =>
        call.status = "raise" /\ call.options_after = call.options_before

\* a simulation has just been backpropagated from the node the walk reached
Backpropagated == ai = "MCTS" /\ pc = "m_sim" /\ pc' = "m_iter"
Mover(n) == n.game_state.current_player_index

\* C19: backpropagate adds 1 to the visits of every node on the path from the
\* leaf to the root; when the playout was won by player M it adds 1.0 to the
\* wins of the path nodes where M is to act and 0.0 where the opponent of M is
\* to act; in general a node whose mover is not the rewarded player gets 1 - r.
C19_PerspectiveFlip ==
    [][Backpropagated =>
        LET path == PathToRoot(tree, node)
            M == get_winner_index(playout'.final_sim_state)
            search_player_index == initial_state.current_player_index
            r == reward_for_search_player(playout'.final_sim_state, search_player_index)
            gain(i) == tree'[i].wins - tree[i].wins
        IN  /\ Len(tree') = Len(tree)
            /\ \A i \in path : tree'[i].visits = tree[i].visits + 1
            /\ M \in {0, 1} =>
                  \A i \in path : gain(i) = IF Mover(tree[i]) = M THEN WinUnit ELSE 0
            /\ \A i \in path :
                  gain(i) = IF Mover(tree[i]) = search_player_index
                            THEN r ELSE WinUnit - r
            /\ \A i \in (1..Len(tree)) \ path :
                  tree'[i].visits = tree[i].visits /\ tree'[i].wins = tree[i].wins]_vars

\* a won playout was backpropagated through a node where the loser is to act:
\* the node was visited once and credited nothing, the root was credited 1.0
C19_Witness ==
    /\ ai = "MCTS" /\ pc = "m_iter"
    /\ get_winner_index(playout.final_sim_state) = 0
    /\ node > 1
    /\ Mover(tree[node]) = 1
    /\ tree[node].visits = 1 /\ tree[node].wins = 0
    /\ Mover(tree[1]) = 0
    /\ tree[1].visits = 1 /\ tree[1].wins = WinUnit

\* C20: after a backpropagation every node on the path from the leaf to the
\* root holds, for every move of the selection path or of the playout, a RAVE
\* visit count increased by 1 and a RAVE reward increased by the reward seen
\* from that node.
C20_RaveTablesUpdated ==
    [][Backpropagated =>
        LET search_player_index == initial_state.current_player_index
            r == reward_for_search_player(playout'.final_sim_state, search_player_index)
            current_reward(i) == IF Mover(tree[i]) = search_player_index
                                 THEN r ELSE WinUnit - r
        IN  \A i \in PathToRoot(tree, node) :
                \A m \in moves_in_tree \cup playout'.moves_in_sim :
                    /\ m \in DOMAIN tree'[i].rave_visits
                    /\ tree'[i].rave_visits[m] = DictGet(tree[i].rave_visits, m, 0) + 1
                    /\ tree'[i].rave_wins[m]
                          = DictGet(tree[i].rave_wins, m, 0) + current_reward(i)]_vars

\* C21: a terminal state is scored 1.0 for a win of the perspective player,
\* 0.0 for a loss and the midpoint for a draw (winner index -2), never as a
\* loss: in the reward of backpropagate (range 0..1) and in the terminal
\* branch of get_score (range -1..1, midpoint 0).
C21_TerminalEvaluation ==
    LET winner == get_winner_index(call.before)
        p == call.player_index
    IN  /\ (call.op = "reward_for_search_player" /\ winner # -1) =>
              /\ winner = p => call.value = WinUnit
              /\ winner = 1 - p => call.value = 0
              /\ winner = -2 => 2 * call.value = WinUnit
        /\ (call.op = "get_score" /\ winner # -1) =>
              /\ call.status = "ok"
              /\ winner = p => call.value = 1000
              /\ winner = 1 - p => call.value = -1000
              /\ winner = -2 => call.value = 0

\* a step of the random playout of CCG_AI was taken from current_state
PlayoutStepped == ai = "CCG" /\ pc = "playout" /\ pc' = "playout"

\* C22: in a random playout a step at which exactly one legal move exists does
\* not consume depth budget; only decisions among two or more legal moves do.
C22_ForcedMoveKeepsDepthBudget ==
    [][PlayoutStepped =>
        depth' = IF Len(get_legal_moves(current_state)) >= 2
                 THEN depth + 1 ELSE depth]_vars

\* ceil(a / b) for b >= 1
CeilDiv(a, b) == (a + b - 1) \div b
\* the probes counted so far are all recorded
Recorded == total_evaluation_count < MaxProbes
\* a probe has just begun at the loop top
ProbeBegun == ai = "CCG" /\ pc = "looptop" /\ pc' = "playout"

VarianceOf(stats, unit) ==
    LET avg_reward == (stats.total_reward * 1000) \div (unit * stats.visits)
        avg_squared_reward ==
            (stats.total_squared_reward * 1000) \div (unit * unit * stats.visits)
    IN  Max(0, avg_squared_reward - (avg_reward * avg_reward) \div 1000)

\* exploitation + variance_weight * variance + C * sqrt((ln(N + 1) / visits)
\* * min(0.25, variance)), in thousandths
ScoreWithVarianceBias(stats, n, opt) ==
    LET unit == RewardUnit(opt.max_score_swing)
        avg_reward == (stats.total_reward * 1000) \div (unit * stats.visits)
        variance == VarianceOf(stats, unit)
        exploration_bonus ==
            ISqrt((LnMilli(n + 1) * Min(250, variance)) \div stats.visits)
    IN  avg_reward + (opt.variance_weight * variance) \div 1000
            + (opt.exploration_weight * exploration_bonus) \div 100

DeterminizedForMover ==
    Determinized /\ call.player_index = call.before.current_player_index

\* C26: for a state s whose player to act is p, get_legal_moves of
\* determinize(s, p) is the same list, in the same order, as get_legal_moves(s),
\* in the Main and in the DeclareDefender phase.
C26_DeterminizeKeepsLegalMoves ==
    DeterminizedForMover => get_legal_moves(call.state) = get_legal_moves(call.before)

\* a defender with a blocker to assign and two different cards in hand got
\* its world back with the hidden cards in another order
C26_Witness ==
    /\ DeterminizedForMover
    /\ call.before.current_phase.name = "DeclareDefender"
    /\ Len(get_legal_moves(call.before)) >= 2
    /\ Len(call.before.players[Viewer(call)].hand) >= 2
    /\ call.state # call.before

SeqToSet(s) == { s[i] : i \in 1..Len(s) }
ChildActions(nodes, i) ==
    [k \in 1..Len(nodes[i].children) |-> nodes[nodes[i].children[k]].action]

\* C27: untried moves are consumed without replacement: at every node of the
\* tree the actions of the children are pairwise distinct and disjoint from
\* untried_actions, and together with untried_actions they are exactly the
\* legal moves of the node's state.
C27_UntriedConsumedWithoutReplacement ==
    (ai = "MCTS" /\ pc # "raised") =>
        \A i \in 1..Len(tree) :
            LET tried == ChildActions(tree, i)
                untried == tree[i].untried_actions
                legal == get_legal_moves(tree[i].game_state)
            IN  /\ \A a, b \in 1..Len(tried) : tried[a] = tried[b] => a = b
                /\ SeqToSet(tried) \cap SeqToSet(untried) = {}
                /\ SeqToSet(tried) \cup SeqToSet(untried) = SeqToSet(legal)
                /\ Len(tried) + Len(untried) = Len(legal)

\* the root has expanded one of its two moves and still holds the other
C27_Witness ==
    /\ ai = "MCTS" /\ pc = "m_iter"
    /\ Len(tree) >= 2
    /\ Len(tree[1].children) = 1
    /\ Len(tree[1].untried_actions) = 1

\* a playout of the current world has been completed and none is under way
PlayoutCompleted ==
    /\ ai = "MCTS" /\ tree # <<>> /\ iter >= 1
    /\ pc \in {"m_iter", "m_looptop", "m_final", "done"}

ChildVisits(nodes, i) ==
    SumSeq([k \in 1..Len(nodes[i].children) |-> nodes[nodes[i].children[k]].visits])

\* C28: after every completed playout every node of the current world's tree
\* has visits >= 1, at least as many visits as its children together and
\* 0 <= wins <= visits; the root's visits equal the playouts run in that world.
C28_TreeStatisticsConsistent ==
    PlayoutCompleted =>
        /\ \A i \in 1..Len(tree) :
              /\ tree[i].visits >= 1
              /\ tree[i].visits >= ChildVisits(tree, i)
              /\ 0 <= tree[i].wins
              /\ tree[i].wins <= WinUnit * tree[i].visits
        /\ tree[1].visits = iter

\* three playouts have run: the root and two levels of descendants
C28_Witness ==
    /\ PlayoutCompleted
    /\ iter = 3
    /\ Len(tree) >= 3
    /\ tree[1].visits = 3
    /\ \E i \in 2..Len(tree) : tree[i].parent # 1 /\ tree[i].visits >= 1

\* C29: the wins a backpropagation adds to a node below the root are the
\* reward of the player to act at its parent, the player who chose the move
\* into it, also when the opponent is to act in the node; for a child of the
\* root, whose wins are summed into master_move_stats, that is the reward of
\* the searching player.
C29_ChildWinsAreChoosersReward ==
    [][Backpropagated =>
        LET path == PathToRoot(tree, node)
            search_player_index == initial_state.current_player_index
            r == reward_for_search_player(playout'.final_sim_state, search_player_index)
            gain(i) == tree'[i].wins - tree[i].wins
        IN  \A i \in path \ {1} :
                /\ gain(i) = IF Mover(tree[tree[i].parent]) = search_player_index
                             THEN r ELSE WinUnit - r
                /\ tree[i].parent = 1 => gain(i) = r]_vars

\* the selection loop is about to invoke best_child on the node of the walk
BestChildInvoked ==
    /\ ai = "MCTS" /\ pc = "m_select"
    /\ ~is_terminal(tree[node].game_state)
    /\ is_fully_expanded(tree[node])

\* C30: whenever best_child is invoked during find_best_move the node has at
\* least one child, every child has visits >= 1 and the node has visits >= 1:
\* no log of 0, no division by 0, no choice from an empty list.
C30_BestChildWellDefined ==
    BestChildInvoked =>
        /\ Len(tree[node].children) >= 1
        /\ \A k \in 1..Len(tree[node].children) :
              tree[tree[node].children[k]].visits >= 1
        /\ tree[node].visits >= 1
        /\ ~best_child_raises(tree, node)
        /\ best_child(tree, node) # {}

\* best_child is invoked below the root, on a node the walk descended to
C30_Witness ==
    /\ BestChildInvoked
    /\ node > 1
    /\ Len(tree[1].children) >= 2
    /\ tree[node].visits >= 2

\* C31: given a non-terminal root state, neither search driver ever calls
\* process_action on a terminal state: not for the probed move, not in a
\* playout of CCG_AI, not in an expansion and not in a simulation of MCTS_AI.
C31_NoActionOnTerminalState ==
    (ai \in {"CCG", "MCTS"} /\ ~is_terminal(initial_state)) => ~calls.on_terminal

\* a playout of CCG_AI from a non-terminal root has reached the end of the
\* game with depth budget left, and stops there
C31_Witness ==
    /\ ai = "CCG" /\ pc = "playout"
    /\ ~is_terminal(initial_state)
    /\ calls.process_action
    /\ is_terminal(current_state)
    /\ depth < options.recon_depth

\* process_action has returned a state for a move that was legal in its receiver
LegalMoveApplied ==
    /\ ai = "GAME" /\ call.op = "process_action" /\ call.status = "ok"
    /\ IsLegal(call.before, call.action)

LastMove(s) == get_legal_moves(s)[Len(get_legal_moves(s))]

\* C32: every state returned by process_action for a legal move is in the Main
\* or the DeclareDefender phase, never left in Upkeep, and offers at least one
\* legal move: PASS in Main, TAKE_DAMAGE in DeclareDefender.
C32_ReturnedStateOffersAMove ==
    LegalMoveApplied =>
        /\ call.state.current_phase.name \in {"Main", "DeclareDefender"}
        /\ get_legal_moves(call.state) # <<>>
        /\ call.state.current_phase.name = "Main" => LastMove(call.state) = PASS
        /\ call.state.current_phase.name = "DeclareDefender"
              => LastMove(call.state) = TAKE_DAMAGE
        /\ get_legal_moves(initial_state) # <<>>

\* a PASS went through Upkeep and came out in the Main phase of the next turn
C32_Witness ==
    /\ LegalMoveApplied
    /\ call.action = PASS
    /\ call.state.turn_number = call.before.turn_number + 1
    /\ call.state.current_phase.name = "Main"

AttackDeclared ==
    /\ LegalMoveApplied
    /\ call.before.current_phase.name = "Main"
    /\ call.action[1] = "DECLARE_ATTACK"

DefenderResponded ==
    /\ LegalMoveApplied
    /\ call.before.current_phase.name = "DeclareDefender"

\* C33: a DECLARE_ATTACK processed in the Main phase yields a DeclareDefender
\* state whose player to act is the opponent of the attacker; any defender
\* response (ASSIGN_BLOCKER or TAKE_DAMAGE) yields a Main state whose player
\* to act is the attacking player again; turn_number stays as it was.
C33_AttackReturnsPriority ==
    /\ AttackDeclared =>
          /\ call.state.current_phase.name = "DeclareDefender"
          /\ call.state.current_phase.attacking_player_idx
                = call.before.current_player_index
          /\ call.state.current_player_index = 1 - call.before.current_player_index
          /\ call.state.turn_number = call.before.turn_number
    /\ DefenderResponded =>
          /\ call.action[1] \in {"ASSIGN_BLOCKER", "TAKE_DAMAGE"}
          /\ call.state.current_phase = MainPhase
          /\ call.state.current_player_index
                = call.before.current_phase.attacking_player_idx
          /\ call.state.current_player_index = 1 - call.before.current_player_index
          /\ call.state.turn_number = call.before.turn_number

\* the defender blocked and the attacker holds priority again
C33_Witness ==
    /\ DefenderResponded
    /\ call.action[1] = "ASSIGN_BLOCKER"
    /\ call.before.current_player_index = 1
    /\ call.state.current_player_index = 0
    /\ call.state.current_phase = MainPhase

UnitAt(s, p, k) == s.players[p + 1].board[k + 1]
HasSlot(s, p, k) == k + 1 \in 1..Len(s.players[p + 1].board)
IsReady(s, p, k) == HasSlot(s, p, k) /\ UnitAt(s, p, k) # None /\ UnitAt(s, p, k).is_ready
SlotsOf(s) ==
    UNION { { <<p, k>> : k \in 0..(Len(s.players[p + 1].board) - 1) } : p \in {0, 1} }

\* C34: under any sequence of legal moves a unit declares at most one attack
\* per turn of its owner and none in the turn it was played: DECLARE_ATTACK
\* is offered only for ready units, a unit enters play not ready, is not ready
\* once its attack has resolved, and is made ready only by the Upkeep that
\* starts a turn of its owner.
C34_OneAttackPerUnitAndTurn ==
    /\ ai = "GAME" =>
          /\ \A i, j \in 1..Len(turn_log) :
                (i < j /\ turn_log[j][1] = "DECLARE_ATTACK")
                    => <<turn_log[i][2], turn_log[i][3]>>
                            # <<turn_log[j][2], turn_log[j][3]>>
          /\ \A k \in 0..MaxIndex :
                IsLegal(initial_state, <<"DECLARE_ATTACK", k, -1>>)
                    => IsReady(initial_state, initial_state.current_player_index, k)
    /\ LegalMoveApplied =>
          LET before == call.before
              after == call.state
              mover == before.current_player_index
          IN  /\ call.action[1] = "PLAY_UNIT" =>
                    /\ UnitAt(after, mover, call.action[3]) # None
                    /\ ~IsReady(after, mover, call.action[3])
              /\ DefenderResponded =>
                    ~IsReady(after, before.current_phase.attacking_player_idx,
                             before.current_phase.attacker_slot_idx)
              /\ call.action # PASS =>
                    \A x \in SlotsOf(after) :
                        IsReady(after, x[1], x[2]) => IsReady(before, x[1], x[2])
              /\ call.action = PASS =>
                    \A x \in SlotsOf(after) :
                        IF x[1] = after.current_player_index
                        THEN UnitAt(after, x[1], x[2]) # None
                                => IsReady(after, x[1], x[2])
                        ELSE IsReady(after, x[1], x[2]) <=> IsReady(before, x[1], x[2])

\* in one turn player 0 has played a unit and attacked with another; the
\* attack has resolved, neither unit is ready and no attack is offered
C34_Witness ==
    /\ ai = "GAME"
    /\ initial_state.current_phase = MainPhase
    /\ initial_state.current_player_index = 0
    /\ \E i, j \in 1..Len(turn_log) :
          /\ turn_log[i][1] = "PLAY_UNIT" /\ turn_log[j][1] = "DECLARE_ATTACK"
          /\ UnitAt(initial_state, 0, turn_log[i][3]) # None
          /\ UnitAt(initial_state, 0, turn_log[j][3]) # None
          /\ ~IsReady(initial_state, 0, turn_log[i][3])
          /\ ~IsReady(initial_state, 0, turn_log[j][3])
    /\ \A k \in 0..MaxIndex : ~IsLegal(initial_state, <<"DECLARE_ATTACK", k, -1>>)

\* the cards a player owns: deck, hand, graveyard and the units on the board
CardTotal(p) ==
    Len(p.deck) + Len(p.hand) + Len(p.graveyard)
        + Cardinality({ k \in 1..Len(p.board) : p.board[k] # None })

\* C35: card conservation.  A legal move and a determinization leave every
\* player with as many cards in deck + hand + graveyard + board as before:
\* playing, drawing, unit death and the reshuffle of the graveyard into an
\* empty deck only move cards between the zones.
C35_CardConservation ==
    (LegalMoveApplied \/ (ai = "GAME" /\ Determinized)) =>
        \A p \in {1, 2} :
            CardTotal(call.state.players[p]) = CardTotal(call.before.players[p])

\* a PASS made the next player reshuffle the graveyard into the empty deck
\* and draw from it
C35_Witness ==
    /\ LegalMoveApplied
    /\ call.action = PASS
    /\ LET p == call.state.current_player_index + 1
       IN  /\ call.before.players[p].deck = <<>>
           /\ Len(call.before.players[p].graveyard) = 2
           /\ call.state.players[p].graveyard = <<>>
           /\ Len(call.state.players[p].deck) = 1
           /\ Len(call.state.players[p].hand) = Len(call.before.players[p].hand) + 1

DealEntered == ai = "PLAY" /\ call.op = "on_enter"

CardsOwned(p) == Len(p.deck) + Len(p.graveyard) + Len(p.hand)

\* C37: the initial deal always terminates: entering Upkeep at turn 1, for
\* every deck size, the loop that draws until each hand holds MAX_HAND_SIZE
\* cards finishes, and each hand then holds min(MAX_HAND_SIZE, cards owned).
C37_InitialDealTerminates ==
    DealEntered =>
        /\ call.status = "ok"
        /\ \A p \in {1, 2} :
              Len(call.state.players[p].hand)
                  = Min(MAX_HAND_SIZE, CardsOwned(call.before.players[p]))

\* analyze_moves has returned a report
Analyzed == ai = "ANALYZER" /\ pc = "done" /\ legal_moves # <<>>

\* C38: analyze_moves distributes simulations round-robin: when it returns
\* with n = sims_run, the move at index i of the legal-move list has
\* sims = ceil((n - i) / num_moves); the counts differ by at most 1, their sum
\* is n, n <= total_simulation_limit and wins <= sims for every move.
C38_RoundRobinSimulations ==
    Analyzed =>
        LET n == result.count
            num_moves == Len(legal_moves)
            sims(i) == master_move_stats[i + 1].sims
            wins(i) == master_move_stats[i + 1].wins
        IN  /\ \A i \in 0..(num_moves - 1) :
                  /\ sims(i) = IF n > i THEN CeilDiv(n - i, num_moves) ELSE 0
                  /\ 0 <= wins(i) /\ wins(i) <= sims(i)
            /\ \A i, j \in 0..(num_moves - 1) :
                  sims(i) - sims(j) <= 1 /\ sims(j) - sims(i) <= 1
            /\ SumSeq([k \in 1..num_moves |-> master_move_stats[k].sims]) = n
            /\ n <= options.total_simulation_limit

\* four simulations over three moves: the first move has had two, and a win
C38_Witness ==
    /\ Analyzed
    /\ Len(legal_moves) = 3
    /\ result.count = 4
    /\ master_move_stats[1].sims = 2
    /\ master_move_stats[2].sims = 1
    /\ master_move_stats[3].sims = 1
    /\ \E k \in 1..3 : master_move_stats[k].wins >= 1

\* a state of the game under way has been rendered with a player to act
RenderedInPlay ==
    /\ ai = "APP" /\ app_state = "IN_GAME" /\ game # NoState
    /\ rendered # NoRender /\ ~rendered.game_over

\* C39: every state rendered while a player is to act is rendered from the
\* human player's index in Player-vs-AI mode, whoever is to act, so that the
\* hand of the AI is never the one shown; from the neutral view -1 in
\* AI-vs-AI mode; from the index of the player to act in Player-vs-Player mode
C39_PointOfViewFollowsMode ==
    RenderedInPlay =>
        LET mode == game_settings.mode
            human == human_player_index(game_settings.players)
        IN  /\ mode = "PVE" =>
                  /\ rendered.pov_player_index = human
                  /\ hands_shown(rendered.pov_player_index) = {human}
            /\ mode = "AVA" => rendered.pov_player_index = -1
            /\ mode = "PVP" => rendered.pov_player_index = rendered.current_player_idx
====
